---- MODULE Spec2Model ----
(***************************************************************************)
(* Diff-comment alignment of data_pipeline/transform_align.py.             *)
(*                                                                         *)
(* process_pr_files parses a unified diff with unidiff's PatchSet, then    *)
(* reads review comments one per line and, for each, looks up the diff     *)
(* line the comment's position refers to (find_hunk_and_line_for_comment). *)
(*                                                                         *)
(* Python values are modelled as follows.                                  *)
(*   - a str is the sequence of its characters, so that ==, startswith,    *)
(*     endswith and slicing are computed as Python computes them;          *)
(*   - an optional value (a JSON null, a missing key, a Line number that   *)
(*     unidiff leaves None) is None == <<>> or Some(v) == <<v>>.           *)
(***************************************************************************)
EXTENDS Integers, Sequences, FiniteSets, TLC

\* ------------------------------------------------------------------ bounds

\* Files in one diff.
MaxFiles == 2

\* Hunks in one file of a diff.
MaxHunks == 2

\* Body lines in one diff, over all its hunks.
MaxLines == 2

\* Lines of one comments file, in the specification of the comment loop.
MaxComments == 2

\* ---------------------------------------------------------- Python values

None == <<>>

Some(v) == <<v>>

Val(o) == o[1]

startswith(s, prefix) ==
    Len(s) >= Len(prefix) /\ SubSeq(s, 1, Len(prefix)) = prefix

endswith(s, suffix) ==
    Len(s) >= Len(suffix) /\ SubSeq(s, Len(s) - Len(suffix) + 1, Len(s)) = suffix

\* s[n:]
slice_from(s, n) == SubSeq(s, n + 1, Len(s))

\* The characters str.strip() removes.
Whitespace == {" ", "\t", "\n", "\r"}

RECURSIVE lstrip(_)
lstrip(s) ==
    IF s # <<>> /\ Head(s) \in Whitespace THEN lstrip(Tail(s)) ELSE s

RECURSIVE rstrip(_)
rstrip(s) ==
    IF s # <<>> /\ s[Len(s)] \in Whitespace
    THEN rstrip(SubSeq(s, 1, Len(s) - 1)) ELSE s

\* s.strip()
strip(s) == rstrip(lstrip(s))

\* ------------------------------------------------- unidiff's parsed model

LINE_TYPE_ADDED == "+"

LINE_TYPE_REMOVED == "-"

LINE_TYPE_CONTEXT == " "

\* "\ No newline at end of file"
LINE_TYPE_NO_NEWLINE == "\\"

LineTypes ==
    {LINE_TYPE_ADDED, LINE_TYPE_REMOVED, LINE_TYPE_CONTEXT, LINE_TYPE_NO_NEWLINE}

is_added(line) == line.line_type = LINE_TYPE_ADDED

is_removed(line) == line.line_type = LINE_TYPE_REMOVED

is_context(line) == line.line_type = LINE_TYPE_CONTEXT

DEV_NULL == <<"/", "d", "e", "v", "/", "n", "u", "l", "l">>

\* PatchedFile.is_rename
is_rename(pf) ==
    /\ pf.source_file # DEV_NULL
    /\ pf.target_file # DEV_NULL
    /\ slice_from(pf.source_file, 2) # slice_from(pf.target_file, 2)

\* PatchedFile.path: the target name of a rename or of an added file, else
\* the source name, with one leading a/ or b/ removed.
path(pf) ==
    LET filepath == IF pf.source_file = DEV_NULL
                       \/ (is_rename(pf) /\ pf.target_file # DEV_NULL)
                    THEN pf.target_file
                    ELSE pf.source_file
    IN  IF startswith(filepath, <<"a", "/">>) \/ startswith(filepath, <<"b", "/">>)
        THEN slice_from(filepath, 2)
        ELSE filepath

\* Mutant of parse_hunk_lines: one counter for the two images, so that every
\* numbered line advances the source and the target number.
RECURSIVE parse_hunk_lines_one_counter(_, _, _, _, _)
parse_hunk_lines_one_counter(types, i, source_line_no, target_line_no, diff_line_no) ==
    IF i > Len(types) THEN <<>>
    ELSE LET t == types[i]
             line == [line_type |-> t,
                      value |-> diff_line_no + i,
                      source_line_no |-> IF t \in {LINE_TYPE_REMOVED, LINE_TYPE_CONTEXT}
                                         THEN Some(source_line_no) ELSE None,
                      target_line_no |-> IF t \in {LINE_TYPE_ADDED, LINE_TYPE_CONTEXT}
                                         THEN Some(target_line_no) ELSE None,
                      diff_line_no |-> diff_line_no + i]
             step == IF t = LINE_TYPE_NO_NEWLINE THEN 0 ELSE 1
         IN  <<line>> \o parse_hunk_lines_one_counter(
                 types, i + 1, source_line_no + step, target_line_no + step,
                 diff_line_no)

\* The body lines of one hunk as unidiff numbers them: two counters, the
\* source one advanced by removed and context lines, the target one by added
\* and context lines; a no-newline marker gets no number and advances nothing.
RECURSIVE parse_hunk_lines(_, _, _, _, _)
parse_hunk_lines(types, i, source_line_no, target_line_no, diff_line_no) ==
    IF i > Len(types) THEN <<>>
    ELSE LET t == types[i]
             line == [line_type |-> t,
                      value |-> diff_line_no + i,
                      source_line_no |-> IF t \in {LINE_TYPE_REMOVED, LINE_TYPE_CONTEXT}
                                         THEN Some(source_line_no) ELSE None,
                      target_line_no |-> IF t \in {LINE_TYPE_ADDED, LINE_TYPE_CONTEXT}
                                         THEN Some(target_line_no) ELSE None,
                      diff_line_no |-> diff_line_no + i]
         IN  <<line>> \o parse_hunk_lines(
                 types, i + 1,
                 IF t \in {LINE_TYPE_REMOVED, LINE_TYPE_CONTEXT}
                 THEN source_line_no + 1 ELSE source_line_no,
                 IF t \in {LINE_TYPE_ADDED, LINE_TYPE_CONTEXT}
                 THEN target_line_no + 1 ELSE target_line_no,
                 diff_line_no)

CountTypes(types, S) == Cardinality({i \in 1..Len(types) : types[i] \in S})

\* One hunk: its @@ header and its body.
parse_hunk(header, types, diff_line_no) ==
    [source_start |-> header.source_start,
     source_length |-> CountTypes(types, {LINE_TYPE_REMOVED, LINE_TYPE_CONTEXT}),
     target_start |-> header.target_start,
     target_length |-> CountTypes(types, {LINE_TYPE_ADDED, LINE_TYPE_CONTEXT}),
     section_header |-> header.section_header,
     lines |-> parse_hunk_lines(types, 1, header.source_start,
                                header.target_start, diff_line_no)]

\* ------------------------------------------------------------------ inputs

\* The ---/+++ names of a file entry of the diff text.
FileHeaders ==
    { \* a modified file, git's default prefixes
      [source_file |-> <<"a", "/", "x">>, target_file |-> <<"b", "/", "x">>],
      \* a modified file one directory down
      [source_file |-> <<"a", "/", "l", "/", "x">>,
       target_file |-> <<"b", "/", "l", "/", "x">>],
      \* a renamed file
      [source_file |-> <<"a", "/", "o">>, target_file |-> <<"b", "/", "x">>],
      \* an added file
      [source_file |-> DEV_NULL, target_file |-> <<"b", "/", "x">>],
      \* the same two modified files in a diff made with --no-prefix
      [source_file |-> <<"x">>, target_file |-> <<"x">>],
      [source_file |-> <<"l", "/", "x">>, target_file |-> <<"l", "/", "x">>] }

has_prefix(name) == startswith(name, <<"a", "/">>) \/ startswith(name, <<"b", "/">>)

\* A diff names a file once and is written with one prefix setting: a new
\* entry shares no source and no target name with an earlier one, and is
\* prefixed if and only if the earlier ones are.
FitsDiff(diff, header) ==
    \A i \in 1..Len(diff) :
        /\ diff[i].target_file # header.target_file
        /\ diff[i].source_file # header.source_file
        /\ has_prefix(diff[i].target_file) <=> has_prefix(header.target_file)

\* The section header of a hunk: the text that follows the second @@ and one
\* space. None for the first hunk, "f() " (written with a space at its end)
\* for the second, "A:" for the later ones.
SectionHeaders == << <<>>, <<"f", "(", ")", " ">>, <<"A", ":">> >>

\* The @@ -s,l +s,l @@ header of the k-th hunk of a file (the lengths follow
\* from the body): the hunks of a file are in ascending order and do not
\* overlap, the first one starts both images at line 1, and the later ones
\* are shifted in the target image by the lines added before them.
hunk_header(k) ==
    [source_start |-> 1 + (k - 1) * (MaxLines + 1),
     target_start |-> 1 + (k - 1) * (MaxLines + 3),
     section_header |-> SectionHeaders[IF k < 3 THEN k ELSE 3]]

\* Hunk bodies: at least one line; a no-newline marker follows a content line.
HunkBodies(n) ==
    { types \in UNION { [1..k -> LineTypes] : k \in 1..n } :
        /\ types[1] # LINE_TYPE_NO_NEWLINE
        /\ \A i \in 2..Len(types) :
              types[i] = LINE_TYPE_NO_NEWLINE => types[i - 1] # LINE_TYPE_NO_NEWLINE }

\* The "path" of a comment record: null, empty, or a name.
CommentPaths ==
    { None,
      Some(<<>>),
      Some(<<"x">>),
      Some(<<"o">>),
      Some(<<"l", "/", "x">>),
      Some(<<"a", "/", "o">>),
      Some(<<"b", "/", "x">>) }

\* "position" and "original_position": null or an integer, from a negative
\* one to one past the last position a diff of MaxLines lines has.
CommentPositions == {None} \cup { Some(p) : p \in (-1)..(MaxLines + 1) }

\* "side": null (or no such key), "LEFT" or "RIGHT".
CommentSides == {None, Some("LEFT"), Some("RIGHT")}

\* The paths of the comments that carry a side.
SidedPaths == {Some(<<"x">>), Some(<<"l", "/", "x">>)}

\* The comment records read from the comments file. Once position is set,
\* original_position is only copied to the output: two values stand for it.
\* side is only copied to the output (line 168): it is given on records that
\* take their position from "position", have one that line 50 lets through
\* and name a file by its path without prefix.
Comments ==
    { c \in [path : CommentPaths,
             position : CommentPositions,
             original_position : CommentPositions,
             side : CommentSides] :
        /\ c.position # None => c.original_position \in {None, Some(1)}
        /\ c.side # None =>
              /\ c.path \in SidedPaths
              /\ c.position # None
              /\ Val(c.position) >= 1
              /\ c.original_position = None }

\* ------------------------------------------------------------------- state

VARIABLES
    pc,                 \* "parse", "align", "done" (True was returned) or
                        \* "failed" (False was returned)
    parsed_diff,        \* the PatchSet: a sequence of PatchedFile
    aligned_data,       \* process_pr_files' list of aligned records
    skipped_comments,   \* process_pr_files' counter
    output_file,        \* the file at output_path: "unknown" until the run
                        \* touches it or returns (a file an earlier run
                        \* wrote may be there), then "written", "removed",
                        \* "absent", or "stale" (the file of an earlier run,
                        \* left in place)
    raised,             \* "none", or the exception that ended the run
    lines_read,         \* the lines of the comments file read so far that
                        \* are not blank
    history,            \* what the loop did with each comment record so
                        \* far, in the order of the comments file
    fetcher,            \* github_pr_fetcher.py: the variables of __main__
    pipeline,           \* run_pipeline.py: the variables of __main__
    discovery           \* discover_new_prs.py: the variables of main

\* The variables of process_pr_files.
transform_align_vars == <<pc, parsed_diff, aligned_data, skipped_comments,
                          output_file, raised, lines_read, history>>

\* The variables of the other programs.
other_programs == <<fetcher, pipeline, discovery>>

vars == <<pc, parsed_diff, aligned_data, skipped_comments, output_file, raised,
          lines_read, history, fetcher, pipeline, discovery>>

\* A program that is not run.
not_run == [pc |-> "not run"]

\* None, or Some(what the loop did with the last comment record).
last == IF history = <<>> THEN None ELSE Some(history[Len(history)])

\* --------------------------------------- find_hunk_and_line_for_comment

\* `not comment_path`: None and the empty string are both false.
falsy_path(comment_path) == comment_path = None \/ comment_path = Some(<<>>)

\* Mutant of invalid_arguments: line 50 written with < 0, so that position 0
\* goes on to the file loop and the walk.
invalid_arguments_negative_only(comment_path, comment_pos) ==
    falsy_path(comment_path) \/ comment_pos = None \/ Val(comment_pos) < 0

\* Mutant of invalid_arguments: line 50 tests the path only.
invalid_arguments_path_only(comment_path, comment_pos) == falsy_path(comment_path)

\* Line 50: the arguments find_hunk_and_line_for_comment refuses.
invalid_arguments(comment_path, comment_pos) ==
    falsy_path(comment_path) \/ comment_pos = None \/ Val(comment_pos) <= 0

\* Mutant of exact_match: the comparison with source_file left out.
exact_match_target_only(file_diff, comment_path) ==
    \/ file_diff.target_file = Val(comment_path)
    \/ path(file_diff) = Val(comment_path)

\* Mutant of exact_match: the comparison with file_diff.path left out.
exact_match_without_path(file_diff, comment_path) ==
    \/ file_diff.source_file = Val(comment_path)
    \/ file_diff.target_file = Val(comment_path)

\* Lines 58-60: the first branch of the file loop.
exact_match(file_diff, comment_path) ==
    \/ file_diff.source_file = Val(comment_path)
    \/ file_diff.target_file = Val(comment_path)
    \/ path(file_diff) = Val(comment_path)

\* Lines 65-66: the elif branch of the file loop.
suffix_match(file_diff, comment_path) ==
    /\ ~falsy_path(comment_path)
    /\ \/ endswith(file_diff.source_file, <<"/">> \o Val(comment_path))
       \/ endswith(file_diff.target_file, <<"/">> \o Val(comment_path))

\* Mutant of find_file: the loop variable used after the loop, so that the
\* last file of the diff stands for a file that was not found.
RECURSIVE find_file_keeps_loop_variable(_, _, _)
find_file_keeps_loop_variable(diff, i, comment_path) ==
    IF i > Len(diff)
    THEN [file |-> Len(diff), examined |-> Len(diff), matched_by |-> "none"]
    ELSE IF exact_match(diff[i], comment_path)
    THEN [file |-> i, examined |-> i, matched_by |-> "exact"]
    ELSE IF suffix_match(diff[i], comment_path)
    THEN [file |-> i, examined |-> i, matched_by |-> "suffix"]
    ELSE find_file_keeps_loop_variable(diff, i + 1, comment_path)

\* Lines 56-69: one loop over the files; the first file that passes either
\* test ends the loop. The result is the file's index (0: none), the number
\* of files the loop looked at and the branch that chose the file.
RECURSIVE find_file(_, _, _)
find_file(diff, i, comment_path) ==
    IF i > Len(diff)
    THEN [file |-> 0, examined |-> Len(diff), matched_by |-> "none"]
    ELSE IF exact_match(diff[i], comment_path)
    THEN [file |-> i, examined |-> i, matched_by |-> "exact"]
    ELSE IF suffix_match(diff[i], comment_path)
    THEN [file |-> i, examined |-> i, matched_by |-> "suffix"]
    ELSE find_file(diff, i + 1, comment_path)

\* Mutant of counts_toward_position: Removed lines take a position too.
counts_every_content_line(line) == is_context(line) \/ is_added(line) \/ is_removed(line)

\* Mutant of counts_toward_position: every line that is not Removed takes a
\* position, the no-newline marker included.
counts_unless_removed(line) == ~is_removed(line)

\* Line 81: the lines that take a position.
counts_toward_position(line) == is_context(line) \/ is_added(line)

\* Mutant of position_reached: line 83 written with <=.
position_reached_at_most(current_pos_count, comment_pos) == current_pos_count <= comment_pos

\* Line 83.
position_reached(current_pos_count, comment_pos) == current_pos_count = comment_pos

\* Mutant of walk: current_pos_count set to 0 inside the loop over the hunks,
\* so that every hunk counts from 0.
RECURSIVE walk_reset_per_hunk(_, _, _, _, _, _)
walk_reset_per_hunk(patched_file_obj, h, l, current_pos_count, comment_pos, walked) ==
    IF h > Len(patched_file_obj.hunks)
    THEN [hunk |-> 0, line |-> 0, walked |-> walked]
    ELSE IF l > Len(patched_file_obj.hunks[h].lines)
    THEN walk_reset_per_hunk(patched_file_obj, h + 1, 1, 0, comment_pos, walked)
    ELSE LET line == patched_file_obj.hunks[h].lines[l]
             count == IF counts_toward_position(line)
                      THEN current_pos_count + 1 ELSE current_pos_count
         IN  IF counts_toward_position(line) /\ position_reached(count, comment_pos)
             THEN [hunk |-> h, line |-> l, walked |-> walked + 1]
             ELSE walk_reset_per_hunk(patched_file_obj, h, l + 1, count, comment_pos,
                                      walked + 1)

\* Mutant of walk: the function returns after the loop over the lines of the
\* first hunk.
RECURSIVE walk_first_hunk_only(_, _, _, _, _, _)
walk_first_hunk_only(patched_file_obj, h, l, current_pos_count, comment_pos, walked) ==
    IF h > Len(patched_file_obj.hunks) \/ h > 1
    THEN [hunk |-> 0, line |-> 0, walked |-> walked]
    ELSE IF l > Len(patched_file_obj.hunks[h].lines)
    THEN walk_first_hunk_only(patched_file_obj, h + 1, 1, current_pos_count,
                              comment_pos, walked)
    ELSE LET line == patched_file_obj.hunks[h].lines[l]
             count == IF counts_toward_position(line)
                      THEN current_pos_count + 1 ELSE current_pos_count
         IN  IF counts_toward_position(line) /\ position_reached(count, comment_pos)
             THEN [hunk |-> h, line |-> l, walked |-> walked + 1]
             ELSE walk_first_hunk_only(patched_file_obj, h, l + 1, count,
                                       comment_pos, walked + 1)

\* Lines 77-89: the walk over the hunks of the matched file and their lines,
\* from hunk h, line l on, with the counter as it stands. The result is the
\* hunk and line found (0, 0: none) and the number of lines looked at.
RECURSIVE walk(_, _, _, _, _, _)
walk(patched_file_obj, h, l, current_pos_count, comment_pos, walked) ==
    IF h > Len(patched_file_obj.hunks)
    THEN [hunk |-> 0, line |-> 0, walked |-> walked]
    ELSE IF l > Len(patched_file_obj.hunks[h].lines)
    THEN walk(patched_file_obj, h + 1, 1, current_pos_count, comment_pos, walked)
    ELSE LET line == patched_file_obj.hunks[h].lines[l]
             count == IF counts_toward_position(line)
                      THEN current_pos_count + 1 ELSE current_pos_count
         IN  IF counts_toward_position(line) /\ position_reached(count, comment_pos)
             THEN [hunk |-> h, line |-> l, walked |-> walked + 1]
             ELSE walk(patched_file_obj, h, l + 1, count, comment_pos, walked + 1)

\* The (None, None, None) results, told apart by the return that gave them.
not_found(reason, examined, walked) ==
    [file |-> 0, hunk |-> 0, line |-> 0, reason |-> reason,
     files_examined |-> examined, lines_walked |-> walked,
     matched_by |-> "none"]

\* Lines 44-89. hunk and line are indices into the parsed diff, 0 and 0 for
\* (None, None, None); reason names the return taken; file is the index of
\* the file the loop of lines 56-69 chose (0: none), kept when line 89 returns
\* (None, None, None) for it.
find_hunk_and_line_for_comment(diff, comment_path, comment_pos) ==
    IF invalid_arguments(comment_path, comment_pos)
    THEN not_found("PositionNotFound", 0, 0)
    ELSE LET found == find_file(diff, 1, comment_path)
         IN  IF found.file = 0
             THEN not_found("FileNotFound", found.examined, 0)
             ELSE LET w == walk(diff[found.file], 1, 1, 0, Val(comment_pos), 0)
                  IN  IF w.hunk = 0
                      THEN [not_found("PositionNotFound", found.examined, w.walked)
                               EXCEPT !.file = found.file,
                                      !.matched_by = found.matched_by]
                      ELSE [file |-> found.file, hunk |-> w.hunk, line |-> w.line,
                            reason |-> "Aligned",
                            files_examined |-> found.examined,
                            lines_walked |-> w.walked,
                            matched_by |-> found.matched_by]

\* ------------------------------------------------------- process_pr_files

\* Lines 91-96.
get_line_type(line) ==
    IF is_added(line) THEN "added"
    ELSE IF is_removed(line) THEN "removed"
    ELSE IF is_context(line) THEN "context"
    ELSE "unknown"

\* Mutant of effective_position: no fallback to original_position.
position_only(comment) == comment.position

\* Lines 126-131: position, or original_position when position is null.
effective_position(comment) ==
    IF comment.position = None THEN comment.original_position ELSE comment.position

\* Mutant of missing_path_or_position: the position test left out.
missing_path_only(comment_path, comment_pos) == falsy_path(comment_path)

\* Line 135.
missing_path_or_position(comment_path, comment_pos) ==
    falsy_path(comment_path) \/ comment_pos = None

\* Mutant of missing_reason: the position test put first.
missing_reason_position_first(comment_path, comment_pos) ==
    IF comment_pos = None THEN "Outdated" ELSE "GeneralComment"

\* Line 135 evaluates `not comment_path` first, `comment_pos is None` second;
\* the skip is named after the first test that holds.
missing_reason(comment_path, comment_pos) ==
    IF falsy_path(comment_path) THEN "GeneralComment" ELSE "Outdated"

\* Mutant of diff_hunk_header: the section header copied as it is.
diff_hunk_header_unstripped(hunk) == hunk.section_header

\* Line 166: hunk.section_header.strip().
diff_hunk_header(hunk) == strip(hunk.section_header)

\* Mutant of line_offset: the target line number taken from the start of the
\* hunk in the source image.
line_offset_from_source_start(hunk, diff_line) ==
    IF is_context(diff_line) \/ is_added(diff_line)
    THEN Val(diff_line.target_line_no) - hunk.source_start
    ELSE Val(diff_line.source_line_no) - hunk.source_start

\* Lines 170-174.
line_offset(hunk, diff_line) ==
    IF is_context(diff_line) \/ is_added(diff_line)
    THEN Val(diff_line.target_line_no) - hunk.target_start
    ELSE Val(diff_line.source_line_no) - hunk.source_start

\* Lines 150-177.
aligned_record(comment_id, comment, comment_pos, matched_patched_file, hunk, diff_line) ==
    [comment_id |-> comment_id,
     comment_path |-> comment.path,
     comment_position |-> comment_pos,
     comment_original_position |-> comment.original_position,
     diff_line_content |-> diff_line.value,
     diff_line_type |-> get_line_type(diff_line),
     diff_line_source_no |-> diff_line.source_line_no,
     diff_line_target_no |-> diff_line.target_line_no,
     side |-> comment.side,
     diff_hunk_header |-> diff_hunk_header(hunk),
     line_offset |-> line_offset(hunk, diff_line),
     diff_file_source |-> matched_patched_file.source_file,
     diff_file_target |-> matched_patched_file.target_file]

\* Lines 126-182: what one iteration of the comment loop decides.
\*   find_called: whether line 143 was reached;
\*   file, hunk, line: the indices find_hunk_and_line_for_comment returned;
\*   reason: "Aligned", or the name of the skip.
process_comment(diff, comment) ==
    LET comment_pos == effective_position(comment)
        comment_path == comment.path
    IN  IF missing_path_or_position(comment_path, comment_pos)
        THEN [comment |-> comment, comment_pos |-> comment_pos, find_called |-> FALSE]
             @@ not_found(missing_reason(comment_path, comment_pos), 0, 0)
        ELSE [comment |-> comment, comment_pos |-> comment_pos, find_called |-> TRUE]
             @@ find_hunk_and_line_for_comment(diff, comment_path, comment_pos)

\* ----------------------------------------------------------------- actions

process_pr_files_not_called ==
    /\ pc = "parse"
    /\ parsed_diff = <<>>
    /\ aligned_data = <<>>
    /\ skipped_comments = 0
    /\ output_file = "unknown"
    /\ raised = "none"
    /\ lines_read = 0
    /\ history = <<>>

Init ==
    /\ process_pr_files_not_called
    /\ fetcher = not_run
    /\ pipeline = not_run
    /\ discovery = not_run

RECURSIVE NumHunks(_)
NumHunks(diff) ==
    IF diff = <<>> THEN 0 ELSE Len(Head(diff).hunks) + NumHunks(Tail(diff))

RECURSIVE HunkLines(_)
HunkLines(hunks) ==
    IF hunks = <<>> THEN 0 ELSE Len(Head(hunks).lines) + HunkLines(Tail(hunks))

RECURSIVE NumLines(_)
NumLines(diff) ==
    IF diff = <<>> THEN 0 ELSE HunkLines(Head(diff).hunks) + NumLines(Tail(diff))

\* Lines of diff text consumed so far: two per file entry, one per hunk
\* header, one per body line.
DiffTextLines(diff) == 2 * Len(diff) + NumHunks(diff) + NumLines(diff)

\* The PatchSet after a ---/+++ pair: a new file entry without hunks.
add_file(diff, header) ==
    Append(diff, [source_file |-> header.source_file,
                  target_file |-> header.target_file,
                  hunks |-> <<>>])

\* The PatchSet after a @@ header and its body: a new hunk of the last file.
add_hunk(diff, types) ==
    LET n == Len(diff)
        header == hunk_header(Len(diff[n].hunks) + 1)
        hunk == parse_hunk(header, types, DiffTextLines(diff) + 1)
    IN  [diff EXCEPT ![n].hunks = Append(@, hunk)]

\* Mutant of cleanup_on_exception: the handler returns without looking at
\* output_path.
no_cleanup_on_exception(exists) == IF exists THEN "unknown" ELSE "absent"

\* Lines 205-213: the handler of `except Exception` removes the file at
\* output_path when there is one.
cleanup_on_exception(exists) == IF exists THEN "removed" ELSE "absent"

\* Mutant of diff_after_lookup: the lookup takes the files it has looked at
\* out of the PatchSet.
diff_after_lookup_consumes(diff, examined) == SubSeq(diff, examined + 1, Len(diff))

\* Lines 44-89: find_hunk_and_line_for_comment reads the PatchSet, its files,
\* hunks and lines, and assigns to none of them: the PatchSet after a lookup
\* that looked at `examined` files is the PatchSet before it.
diff_after_lookup(diff, examined) == diff

\* Mutant of unlink_if_exists: the file of an earlier run is left in place.
keep_if_exists(exists) == IF exists THEN "stale" ELSE "absent"

\* Lines 197-198: with nothing aligned, an output file that exists is removed.
unlink_if_exists(exists) == IF exists THEN "removed" ELSE "absent"

\* Lines 202-204: the handler of FileNotFoundError does not look at
\* output_path: a file an earlier run wrote stays.
output_untouched(exists) == IF exists THEN "stale" ELSE "absent"

\* Mutant of append_record: the record put at the head of the list.
prepend_record(records, record) == <<record>> \o records

\* Line 178: aligned_data.append(aligned_record).
append_record(records, record) == Append(records, record)

\* Line 110, PatchSet: a ---/+++ pair opens a file entry.
ParseFile(header) ==
    /\ pc = "parse"
    /\ Len(parsed_diff) < MaxFiles
    /\ FitsDiff(parsed_diff, header)
    /\ parsed_diff' = add_file(parsed_diff, header)
    /\ UNCHANGED <<pc, aligned_data, skipped_comments, output_file, raised,
                   lines_read, history>>
    /\ UNCHANGED other_programs

\* Line 110, PatchSet: a @@ header and its body add a hunk to the last file.
ParseHunk(types) ==
    /\ pc = "parse"
    /\ parsed_diff # <<>>
    /\ Len(parsed_diff[Len(parsed_diff)].hunks) < MaxHunks
    /\ NumLines(parsed_diff) + Len(types) <= MaxLines
    /\ parsed_diff' = add_hunk(parsed_diff, types)
    /\ UNCHANGED <<pc, aligned_data, skipped_comments, output_file, raised,
                   lines_read, history>>
    /\ UNCHANGED other_programs

\* Line 110, PatchSet, on a text with a hunk header it does not recognise or
\* a hunk shorter than its header declares (either comes after a file entry):
\* the constructor raises, parsed_diff is never bound, the comment loop is
\* not entered and the handler of lines 205-213 returns False.
MalformedDiff ==
    /\ pc = "parse"
    /\ parsed_diff # <<>>
    /\ pc' = "failed"
    /\ raised' = "UnidiffParseError"
    /\ parsed_diff' = <<>>
    /\ \E exists \in BOOLEAN : output_file' = cleanup_on_exception(exists)
    /\ UNCHANGED <<aligned_data, skipped_comments, lines_read, history>>
    /\ UNCHANGED other_programs

\* Lines 106 and 113, 202-204: the diff file (before any of it is parsed) or
\* the comments file (after the diff is parsed) is not there. False is
\* returned and output_path is not looked at.
InputFileMissing ==
    /\ pc = "parse"
    /\ pc' = "failed"
    /\ raised' = "FileNotFoundError"
    /\ \E exists \in BOOLEAN : output_file' = output_untouched(exists)
    /\ UNCHANGED <<parsed_diff, aligned_data, skipped_comments, lines_read, history>>
    /\ UNCHANGED other_programs

\* Lines 110-113: the diff text is read to its end and the comment loop starts.
\* A text that is empty or holds blank lines only opens no file entry: this
\* is the step taken from the initial state.
ParseDone ==
    /\ pc = "parse"
    /\ pc' = "align"
    /\ UNCHANGED <<parsed_diff, aligned_data, skipped_comments, output_file,
                   raised, lines_read, history>>
    /\ UNCHANGED other_programs

\* Lines 114-122: a line of the comments file that is not JSON is counted as
\* skipped. (A blank line, lines 115-116, changes nothing.) The comments file
\* has at most n lines.
InvalidJSONLine(n) ==
    /\ pc = "align"
    /\ lines_read < n
    /\ lines_read' = lines_read + 1
    /\ skipped_comments' = skipped_comments + 1
    /\ UNCHANGED <<pc, parsed_diff, aligned_data, output_file, raised, history>>
    /\ UNCHANGED other_programs

\* The exceptions a line that is JSON can raise in the loop body:
\* AttributeError at line 126 when the JSON value is not an object (comment
\* has no get), TypeError at line 50 when "position" is a string
\* (comment_pos <= 0).
CommentExceptions == {"AttributeError", "TypeError"}

\* Lines 114-182 and 205-213: the loop body raises on a line. No try inside
\* the loop takes the exception: it leaves the loop and the function through
\* the handler of `except Exception`, which removes the file at output_path
\* and returns False. aligned_data is not written.
IllTypedLine(exception, n) ==
    /\ pc = "align"
    /\ lines_read < n
    /\ lines_read' = lines_read + 1
    /\ pc' = "failed"
    /\ raised' = exception
    /\ \E exists \in BOOLEAN : output_file' = cleanup_on_exception(exists)
    /\ UNCHANGED <<parsed_diff, aligned_data, skipped_comments, history>>
    /\ UNCHANGED other_programs

\* Lines 114-182: one iteration of the loop over the comment lines, for a
\* line that is a JSON record. Line 145 tests the three values returned, and
\* a file, hunk and line that were found are all true. The comments file has
\* at most n lines; the record's "id" is the number of its line.
ProcessComment(comment, n) ==
    /\ pc = "align"
    /\ lines_read < n
    /\ lines_read' = lines_read + 1
    /\ LET r == process_comment(parsed_diff, comment)
           comment_id == lines_read + 1
       IN  /\ history' = Append(history, [comment_id |-> comment_id] @@ r)
           /\ IF r.reason = "Aligned"
              THEN /\ aligned_data' = append_record(aligned_data,
                          aligned_record(comment_id, comment, r.comment_pos,
                                         parsed_diff[r.file],
                                         parsed_diff[r.file].hunks[r.hunk],
                                         parsed_diff[r.file].hunks[r.hunk].lines[r.line]))
                   /\ UNCHANGED skipped_comments
              ELSE /\ skipped_comments' = skipped_comments + 1
                   /\ UNCHANGED aligned_data
           /\ parsed_diff' = IF r.find_called
                             THEN diff_after_lookup(parsed_diff, r.files_examined)
                             ELSE parsed_diff
    /\ UNCHANGED <<pc, output_file, raised>>
    /\ UNCHANGED other_programs

\* Lines 184-200: the comments file is read to its end. With aligned records
\* the output file is written; with none, an output file that exists is
\* removed. True is returned. The loop's variables are not used again.
Finish ==
    /\ pc = "align"
    /\ pc' = "done"
    /\ IF aligned_data # <<>>
       THEN output_file' = "written"
       ELSE \E exists \in BOOLEAN : output_file' = unlink_if_exists(exists)
    /\ history' = <<>>
    /\ UNCHANGED <<parsed_diff, aligned_data, skipped_comments, raised, lines_read>>
    /\ UNCHANGED other_programs

\* Lines 184-190 and 205-213: making the output directory, opening the output
\* file or writing a record raises OSError. The handler removes the file at
\* output_path if there is one (the one just opened, or the one of an earlier
\* run) and returns False.
WriteFails ==
    /\ pc = "align"
    /\ aligned_data # <<>>
    /\ pc' = "failed"
    /\ raised' = "OSError"
    /\ \E exists \in BOOLEAN : output_file' = cleanup_on_exception(exists)
    /\ history' = <<>>
    /\ UNCHANGED <<parsed_diff, aligned_data, skipped_comments, lines_read>>
    /\ UNCHANGED other_programs

\* One run of process_pr_files over a diff and a comments file of one line.
Next ==
    \/ \E header \in FileHeaders : ParseFile(header)
    \/ \E types \in HunkBodies(MaxLines - NumLines(parsed_diff)) : ParseHunk(types)
    \/ MalformedDiff
    \/ InputFileMissing
    \/ ParseDone
    \/ InvalidJSONLine(1)
    \/ \E exception \in CommentExceptions : IllTypedLine(exception, 1)
    \/ \E comment \in Comments : ProcessComment(comment, 1)
    \/ Finish
    \/ WriteFails

Spec == Init /\ [][Next]_vars

\* ------------------------------------------------- the comment loop alone

\* Parsed diffs for the runs over several comment lines: the empty diff, a
\* diff of one file, and a diff of two files of which the comment path "x"
\* names the second and is a suffix of the first.
LoopDiffs ==
    { <<>>,
      add_hunk(add_file(<<>>, [source_file |-> <<"a", "/", "x">>,
                               target_file |-> <<"b", "/", "x">>]),
               <<LINE_TYPE_ADDED, LINE_TYPE_CONTEXT>>),
      add_hunk(add_file(add_hunk(add_file(<<>>,
                   [source_file |-> <<"a", "/", "l", "/", "x">>,
                    target_file |-> <<"b", "/", "l", "/", "x">>]),
                   <<LINE_TYPE_REMOVED, LINE_TYPE_ADDED>>),
                   [source_file |-> <<"a", "/", "x">>,
                    target_file |-> <<"b", "/", "x">>]),
               <<LINE_TYPE_CONTEXT>>) }

\* Comment records for these runs.
LoopComments ==
    [path : {None, Some(<<"x">>), Some(<<"o">>)},
     position : {None, Some(0), Some(1), Some(2)},
     original_position : {None, Some(1)},
     side : {None}]

\* The loop starts on a parsed diff.
LoopInit ==
    /\ pc = "align"
    /\ parsed_diff \in LoopDiffs
    /\ aligned_data = <<>>
    /\ skipped_comments = 0
    /\ output_file = "unknown"
    /\ raised = "none"
    /\ lines_read = 0
    /\ history = <<>>
    /\ fetcher = not_run
    /\ pipeline = not_run
    /\ discovery = not_run

\* The loop of lines 113-182 over a comments file of at most MaxComments
\* lines, and the return.
LoopNext ==
    \/ InvalidJSONLine(MaxComments)
    \/ \E exception \in CommentExceptions : IllTypedLine(exception, MaxComments)
    \/ \E comment \in LoopComments : ProcessComment(comment, MaxComments)
    \/ Finish
    \/ WriteFails

LoopSpec == LoopInit /\ [][LoopNext]_vars

\* ============================================== github_pr_fetcher.py

\* The URLs of the input list, at most.
MaxPRs == 2

\* The waits one PR spends on RateLimitExceededException, at most (the code
\* sets no limit on them).
MaxRateLimitWaits == 1

\* Lines 410, 412 and 429.
max_diff_fetch_retries == 5
base_diff_backoff_seconds == 30
diff_backoff_cap_seconds == 300

\* A pull request: its repository key "owner/repo" and its number.
PR(repo_key, pr_number) == [repo_key |-> repo_key, pr_number |-> pr_number]

PRs == {PR("o/r", 1), PR("o/r", 2), PR("o/s", 1)}

\* Lines 57-63, parse_github_pr_url: re.match takes a pull request out of the
\* start of a URL, so several lines of the input list can name the same pull
\* request; a line it does not match raises ValueError. A URL is modelled by
\* what it parses to: None when it does not match.
InputURLs == {None} \cup {Some(pr) : pr \in PRs}

RECURSIVE SeqsUpTo(_, _)
SeqsUpTo(S, n) ==
    IF n = 0 THEN {<<>>}
    ELSE SeqsUpTo(S, n - 1)
         \cup {Append(s, x) : s \in {t \in SeqsUpTo(S, n - 1) : Len(t) = n - 1}, x \in S}

\* Lines 234-246: the pull requests of the valid URLs, grouped by repository
\* in the order in which the repositories first appear (a dict keeps
\* insertion order), each group in input order.
RECURSIVE group_prs_by_repository(_)
group_prs_by_repository(pr_urls) ==
    IF pr_urls = <<>> THEN <<>>
    ELSE LET grouped == group_prs_by_repository(SubSeq(pr_urls, 1, Len(pr_urls) - 1))
             url == pr_urls[Len(pr_urls)]
         IN  IF url = None THEN grouped
             ELSE IF \E i \in 1..Len(grouped) : grouped[i].repo_key = Val(url).repo_key
             THEN [i \in 1..Len(grouped) |->
                      IF grouped[i].repo_key = Val(url).repo_key
                      THEN [grouped[i] EXCEPT !.pr_details_list = Append(@, Val(url).pr_number)]
                      ELSE grouped[i]]
             ELSE Append(grouped, [repo_key |-> Val(url).repo_key,
                                   pr_details_list |-> <<Val(url).pr_number>>])

\* Lines 229-232. The checkpoint, a dict from repository key to a list of
\* numbers without repetition, is held as the set of its pull requests.
is_pr_processed(repo_key, pr_number, processed_prs_by_repo) ==
    PR(repo_key, pr_number) \in processed_prs_by_repo

Min(a, b) == IF a <= b THEN a ELSE b

\* Line 429: the wait before retry number `retry`.
backoff_seconds(retry) ==
    Min(base_diff_backoff_seconds * (2 ^ (retry - 1)), diff_backoff_cap_seconds)

may_retry_once_more_than_max(current_diff_fetch_retry) ==
    current_diff_fetch_retry <= max_diff_fetch_retries

\* Line 426.
may_retry(current_diff_fetch_retry) ==
    current_diff_fetch_retry < max_diff_fetch_retries

\* Lines 524-537: batch_upload_successful_or_skipped.
batch_upload_successful_or_skipped(skip_remote_upload, upload_ok) ==
    skip_remote_upload \/ upload_ok

can_delete_checkpoint_ignoring_failures(overall_failure_count, required, processed) ==
    /\ Cardinality(processed) >= Len(required)
    /\ \A i \in 1..Len(required) : required[i] \in processed

\* Lines 586-614: can_delete_checkpoint and all_required_prs_are_processed.
\* `required` is all_input_prs_parsed_details, a list (a pull request named
\* twice is counted twice at line 586), `processed` is
\* all_prs_fully_processed_in_this_run_or_before.
can_delete_checkpoint(overall_failure_count, required, processed) ==
    /\ ~(overall_failure_count > 0)
    /\ Cardinality(processed) >= Len(required)
    /\ \A i \in 1..Len(required) : required[i] \in processed

\* Lines 571-577: the pull requests of the valid URLs, in input order.
RECURSIVE all_input_prs_parsed_details(_)
all_input_prs_parsed_details(pr_urls) ==
    IF pr_urls = <<>> THEN <<>>
    ELSE LET rest == all_input_prs_parsed_details(SubSeq(pr_urls, 1, Len(pr_urls) - 1))
         IN  IF pr_urls[Len(pr_urls)] = None THEN rest
             ELSE Append(rest, Val(pr_urls[Len(pr_urls)]))

\* Lines 628-644: the exit status at the end of the run.
final_exit_status(overall_failure_count, required, processed_prs_by_repo) ==
    IF overall_failure_count > 0 THEN 1
    ELSE IF \A i \in 1..Len(required) :
                is_pr_processed(required[i].repo_key, required[i].pr_number,
                                processed_prs_by_repo)
         THEN 0
         ELSE 1

\* The checkpoints a run can load (lines 205-217, 319): none, or one of an
\* earlier run.
LoadedCheckpoints == {{}, {PR("o/r", 1)}}

\* The fetcher when it has read its arguments and loaded the checkpoint
\* (lines 301-336). Fields without a counterpart in the code: loaded (what
\* load_checkpoint returned), fetched_and_saved, fetch_failed and save_failed
\* (the pull requests for which lines 498-503, a failing fetch and a failing
\* save were reached in this run), uploaded and upload_failed (the
\* repositories whose batch upload returned True and False),
\* rate_limit_waits (the waits of lines 447-476 for the current pull
\* request), checkpoint_file and exit_status.
FetcherStarts ==
    { f \in [pc : {"start"},
             all_input_pr_urls : SeqsUpTo(InputURLs, MaxPRs),
             skip_remote_upload : BOOLEAN,
             processed_prs_by_repo_checkpoint : LoadedCheckpoints,
             loaded : LoadedCheckpoints,
             all_prs_fully_processed_in_this_run_or_before : {{}},
             overall_failure_count : {0},
             repo_index : {0},
             pr_index : {0},
             repo_batch_successfully_fetched_and_saved : {<<>>},
             current_diff_fetch_retry : {0},
             wait_time : {0},
             rate_limit_waits : {0},
             checkpoint_file : {"absent", "present"},
             exit_status : {None},
             fetched_and_saved : {{}},
             fetch_failed : {{}},
             save_failed : {{}},
             uploaded : {{}},
             upload_failed : {{}}] :
        /\ f.loaded = f.processed_prs_by_repo_checkpoint
        /\ f.loaded # {} => f.checkpoint_file = "present" }

\* Line 343.
prs_grouped_by_repository == group_prs_by_repository(fetcher.all_input_pr_urls)

\* The repository of the outer loop (line 373) and the pull request of the
\* inner loop (line 380).
current_repo == prs_grouped_by_repository[fetcher.repo_index]
current_pr == PR(current_repo.repo_key, current_repo.pr_details_list[fetcher.pr_index + 1])

fetcher_exit(status) ==
    [fetcher EXCEPT !.pc = "exited", !.exit_status = Some(status)]

\* Lines 324-336 and 349-357: the input list cannot be read, or the GitHub
\* client cannot be set up: exit status 1.
SetupFails ==
    /\ fetcher.pc = "start"
    /\ fetcher' = fetcher_exit(1)
    /\ UNCHANGED <<transform_align_vars, pipeline, discovery>>

\* Lines 338-370: with no URL, or no valid URL, exit status 0; otherwise the
\* processed set is filled from the checkpoint and the loops start.
StartFetcher ==
    /\ fetcher.pc = "start"
    /\ fetcher' =
         IF fetcher.all_input_pr_urls = <<>> \/ prs_grouped_by_repository = <<>>
         THEN fetcher_exit(0)
         ELSE [fetcher EXCEPT
                 !.pc = "repo",
                 !.all_prs_fully_processed_in_this_run_or_before =
                     fetcher.processed_prs_by_repo_checkpoint,
                 !.repo_index = 1,
                 !.pr_index = 0,
                 !.repo_batch_successfully_fetched_and_saved = <<>>]
    /\ UNCHANGED <<transform_align_vars, pipeline, discovery>>

\* Lines 380-392: the next pull request of the repository is in the
\* checkpoint and is skipped.
SkipProcessedPR ==
    /\ fetcher.pc = "repo"
    /\ fetcher.pr_index < Len(current_repo.pr_details_list)
    /\ is_pr_processed(current_pr.repo_key, current_pr.pr_number,
                       fetcher.processed_prs_by_repo_checkpoint)
    /\ fetcher' = [fetcher EXCEPT
                     !.all_prs_fully_processed_in_this_run_or_before = @ \cup {current_pr},
                     !.pr_index = @ + 1]
    /\ UNCHANGED <<transform_align_vars, pipeline, discovery>>

\* Lines 380-416: the next pull request is not in the checkpoint; its retry
\* loop starts with current_diff_fetch_retry = 0.
BeginPR ==
    /\ fetcher.pc = "repo"
    /\ fetcher.pr_index < Len(current_repo.pr_details_list)
    /\ ~is_pr_processed(current_pr.repo_key, current_pr.pr_number,
                        fetcher.processed_prs_by_repo_checkpoint)
    /\ fetcher' = [fetcher EXCEPT
                     !.pc = "fetch",
                     !.current_diff_fetch_retry = 0,
                     !.wait_time = 0,
                     !.rate_limit_waits = 0]
    /\ UNCHANGED <<transform_align_vars, pipeline, discovery>>

\* Lines 505-519: an exception ends the pull request's iteration; it is
\* tallied as a failure of this run and is not added to the batch.
pr_failed(f) ==
    [f EXCEPT
       !.pc = "repo",
       !.pr_index = @ + 1,
       !.overall_failure_count =
           IF ~is_pr_processed(current_pr.repo_key, current_pr.pr_number,
                               f.processed_prs_by_repo_checkpoint)
           THEN @ + 1 ELSE @]

\* Lines 423, 445, 485-503 and 518: fetch_pr_data returns the diff and the
\* comments, both are saved, and the pull request joins the batch.
FetchedAndSaved ==
    /\ fetcher.pc = "fetch"
    /\ fetcher' = [fetcher EXCEPT
                     !.pc = "repo",
                     !.pr_index = @ + 1,
                     !.repo_batch_successfully_fetched_and_saved =
                         Append(@, current_pr.pr_number),
                     !.fetched_and_saved = @ \cup {current_pr}]
    /\ UNCHANGED <<transform_align_vars, pipeline, discovery>>

\* Lines 423 and 440-442 (or an exception out of fetch_pr_data other than
\* RateLimitExceededException), 505-519: the fetch fails.
FetchFails ==
    /\ fetcher.pc = "fetch"
    /\ fetcher' = [pr_failed(fetcher) EXCEPT !.fetch_failed = @ \cup {current_pr}]
    /\ UNCHANGED <<transform_align_vars, pipeline, discovery>>

\* Lines 490-496 and 511-519: the fetch succeeds and writing the diff file
\* raises, or save_comments_to_jsonl returns False.
SaveFails ==
    /\ fetcher.pc = "fetch"
    /\ fetcher' = [pr_failed(fetcher) EXCEPT !.save_failed = @ \cup {current_pr}]
    /\ UNCHANGED <<transform_align_vars, pipeline, discovery>>

\* Lines 89-104 and 423-438: the diff download answers 429 with no
\* Retry-After header or one that is not a number, and fetch_pr_data returns
\* DIFF_DOWNLOAD_RATE_LIMIT_NO_RETRY_AFTER. Below the maximum the loop sleeps
\* and tries again; at the maximum it raises and the pull request fails.
DiffRateLimitedNoRetryAfter ==
    /\ fetcher.pc = "fetch"
    /\ fetcher' =
         IF may_retry(fetcher.current_diff_fetch_retry)
         THEN [fetcher EXCEPT
                 !.current_diff_fetch_retry = @ + 1,
                 !.wait_time = backoff_seconds(fetcher.current_diff_fetch_retry + 1)]
         ELSE [pr_failed(fetcher) EXCEPT !.fetch_failed = @ \cup {current_pr}]
    /\ UNCHANGED <<transform_align_vars, pipeline, discovery>>

\* Lines 95-100, 119-121 and 447-477: RateLimitExceededException, raised by
\* the API or by fetch_pr_data for a 429 with a Retry-After number. The loop
\* sleeps and tries again; current_diff_fetch_retry is not touched.
RateLimitExceeded ==
    /\ fetcher.pc = "fetch"
    /\ fetcher.rate_limit_waits < MaxRateLimitWaits
    /\ fetcher' = [fetcher EXCEPT !.rate_limit_waits = @ + 1]
    /\ UNCHANGED <<transform_align_vars, pipeline, discovery>>

\* The pull requests of the batch that line 551 finds missing from the
\* checkpoint.
newly_checkpointed(f, repo_key) ==
    {PR(repo_key, f.repo_batch_successfully_fetched_and_saved[i]) :
        i \in 1..Len(f.repo_batch_successfully_fetched_and_saved)}
    \ f.processed_prs_by_repo_checkpoint

\* Lines 522-567 and 373: the repository's pull requests are done. A batch
\* that is not empty is uploaded unless --skip-remote-upload is given; when
\* the upload succeeded or was skipped its pull requests are added to the
\* checkpoint, which is saved (save_checkpoint, lines 219-227, swallows a
\* failure to write); when the upload failed they are tallied as failures.
\* Then the next repository starts, or the loop ends.
FinishRepository(upload_ok, save_ok) ==
    /\ fetcher.pc = "repo"
    /\ fetcher.pr_index = Len(current_repo.pr_details_list)
    /\ LET batch == fetcher.repo_batch_successfully_fetched_and_saved
           repo_key == current_repo.repo_key
           uploading == batch # <<>> /\ ~fetcher.skip_remote_upload
           checkpointing ==
               /\ batch # <<>>
               /\ batch_upload_successful_or_skipped(fetcher.skip_remote_upload, upload_ok)
           added == IF checkpointing THEN newly_checkpointed(fetcher, repo_key) ELSE {}
           last_repo == fetcher.repo_index = Len(prs_grouped_by_repository)
       IN  fetcher' = [fetcher EXCEPT
             !.uploaded = IF uploading /\ upload_ok THEN @ \cup {repo_key} ELSE @,
             !.upload_failed = IF uploading /\ ~upload_ok THEN @ \cup {repo_key} ELSE @,
             !.overall_failure_count =
                 IF uploading /\ ~upload_ok THEN @ + Len(batch) ELSE @,
             !.processed_prs_by_repo_checkpoint = @ \cup added,
             !.all_prs_fully_processed_in_this_run_or_before = @ \cup added,
             !.checkpoint_file = IF added # {} /\ save_ok THEN "present" ELSE @,
             !.pc = IF last_repo THEN "cleanup" ELSE "repo",
             !.repo_index = IF last_repo THEN @ ELSE @ + 1,
             !.pr_index = 0,
             !.repo_batch_successfully_fetched_and_saved = <<>>]
    /\ UNCHANGED <<transform_align_vars, pipeline, discovery>>

\* Lines 570-644: the checkpoint file is deleted (unlink with missing_ok) or
\* kept, and the process exits.
FinalCheckpointCleanup ==
    /\ fetcher.pc = "cleanup"
    /\ LET required == all_input_prs_parsed_details(fetcher.all_input_pr_urls)
       IN  fetcher' = [fetcher EXCEPT
             !.pc = "exited",
             !.checkpoint_file =
                 IF can_delete_checkpoint(fetcher.overall_failure_count, required,
                        fetcher.all_prs_fully_processed_in_this_run_or_before)
                 THEN "deleted" ELSE @,
             !.exit_status =
                 Some(final_exit_status(fetcher.overall_failure_count, required,
                                        fetcher.processed_prs_by_repo_checkpoint))]
    /\ UNCHANGED <<transform_align_vars, pipeline, discovery>>

FetcherInit ==
    /\ process_pr_files_not_called
    /\ fetcher \in FetcherStarts
    /\ pipeline = not_run
    /\ discovery = not_run

FetcherNext ==
    \/ SetupFails
    \/ StartFetcher
    \/ SkipProcessedPR
    \/ BeginPR
    \/ FetchedAndSaved
    \/ FetchFails
    \/ SaveFails
    \/ DiffRateLimitedNoRetryAfter
    \/ RateLimitExceeded
    \/ \E upload_ok \in BOOLEAN, save_ok \in BOOLEAN : FinishRepository(upload_ok, save_ok)
    \/ FinalCheckpointCleanup

FetcherSpec == FetcherInit /\ [][FetcherNext]_vars

\* ================================================ discover_new_prs.py

\* The repositories of the configuration, at most.
MaxRepos == 2

\* The URLs fetch_github_prs returns for one repository, at most.
MaxFetched == 2

\* Pull request URLs, numbered in the order of the strings (lines 242, 355
\* sort them).
NumURLs == 3
URLs == 1..NumURLs

RECURSIVE insert_in_order(_, _)
insert_in_order(urls, url) ==
    IF urls = <<>> THEN <<url>>
    ELSE IF url <= Head(urls) THEN <<url>> \o urls
    ELSE <<Head(urls)>> \o insert_in_order(Tail(urls), url)

\* Line 355, list.sort: the same URLs, as many times each, in ascending order.
RECURSIVE list_sort(_)
list_sort(urls) ==
    IF urls = <<>> THEN <<>>
    ELSE insert_in_order(list_sort(Tail(urls)), Head(urls))

\* Line 242, sorted(list(urls)) of a set.
RECURSIVE sorted_list(_)
sorted_list(urls) ==
    IF urls = {} THEN <<>>
    ELSE LET least == CHOOSE u \in urls : \A v \in urls : u <= v
         IN  <<least>> \o sorted_list(urls \ {least})

not_remembered(processed_pr_urls, url) == processed_pr_urls

\* Line 346: processed_pr_urls.add(url).
remembered(processed_pr_urls, url) == processed_pr_urls \cup {url}

\* Lines 342-348: the URLs of one repository's results that are not in
\* processed_pr_urls are appended to all_new_pr_urls and added to
\* processed_pr_urls, one after the other.
RECURSIVE identify_new(_, _, _)
identify_new(fetched_urls_list, processed_pr_urls, all_new_pr_urls) ==
    IF fetched_urls_list = <<>>
    THEN [processed_pr_urls |-> processed_pr_urls, all_new_pr_urls |-> all_new_pr_urls]
    ELSE LET url == Head(fetched_urls_list)
         IN  IF url \notin processed_pr_urls
             THEN identify_new(Tail(fetched_urls_list),
                               remembered(processed_pr_urls, url),
                               Append(all_new_pr_urls, url))
             ELSE identify_new(Tail(fetched_urls_list), processed_pr_urls, all_new_pr_urls)

\* Line 373.
final_processed_urls(processed_pr_urls, all_fetched_pr_urls) ==
    processed_pr_urls \cup all_fetched_pr_urls

\* The URLs of a list.
Elements(urls) == {urls[i] : i \in 1..Len(urls)}

\* The URLs that are more than once in a list.
Repeated(urls) == {urls[i] : i \in {j \in 1..Len(urls) : \E k \in 1..Len(urls) : k # j /\ urls[k] = urls[j]}}

\* Discovery at line 262. github_repositories is the number of repositories
\* of the configuration. Fields without a counterpart in the code: loaded
\* (what load_processed_prs returned), returned_again (the URLs the searches
\* returned more than once), output_file and log_file (None, or the lines
\* this run wrote to --output-file and to the updated log), exit_status.
DiscoveryStarts ==
    [pc : {"start"},
     github_repositories : 0..MaxRepos,
     repos_done : {0},
     processed_pr_urls : {{}},
     loaded : {{}},
     all_new_pr_urls : {<<>>},
     all_fetched_pr_urls : {{}},
     returned_again : {{}},
     output_file : {None},
     log_file : {None},
     exit_status : {None}]

\* Lines 262-269, 272, 287-289 and 319-325: --no-upload without
\* --log-output-path, no network, a bad configuration, no rclone, or no
\* GitHub token: exit status 1.
DiscoverySetupFails ==
    /\ discovery.pc = "start"
    /\ discovery' = [discovery EXCEPT !.pc = "exited", !.exit_status = Some(1)]
    /\ UNCHANGED <<transform_align_vars, fetcher, pipeline>>

\* Lines 291-329: the processed log is downloaded (an empty one stands in
\* when the download fails or in local mode) and loaded as a set, and the
\* lists of this run start empty.
LoadProcessedPRs(urls) ==
    /\ discovery.pc = "start"
    /\ discovery' = [discovery EXCEPT
                       !.pc = "repos",
                       !.processed_pr_urls = urls,
                       !.loaded = urls,
                       !.all_new_pr_urls = <<>>,
                       !.all_fetched_pr_urls = {}]
    /\ UNCHANGED <<transform_align_vars, fetcher, pipeline>>

\* Lines 331-348: one iteration of the loop over the repositories, with the
\* list fetch_github_prs returned (empty on an error, lines 213-225).
FetchRepository(fetched_urls_list) ==
    /\ discovery.pc = "repos"
    /\ discovery.repos_done < discovery.github_repositories
    /\ LET r == identify_new(fetched_urls_list, discovery.processed_pr_urls,
                             discovery.all_new_pr_urls)
       IN  discovery' = [discovery EXCEPT
             !.repos_done = @ + 1,
             !.all_fetched_pr_urls = @ \cup Elements(fetched_urls_list),
             !.processed_pr_urls = r.processed_pr_urls,
             !.all_new_pr_urls = r.all_new_pr_urls,
             !.returned_again = @ \cup Repeated(fetched_urls_list)
                                  \cup (Elements(fetched_urls_list)
                                        \cap discovery.all_fetched_pr_urls)]
    /\ UNCHANGED <<transform_align_vars, fetcher, pipeline>>

\* Lines 350-418: the new URLs are sorted and saved to --output-file, the
\* updated log is saved, and the script ends with exit status 0.
\* save_urls_to_file (lines 227-235) and save_processed_urls (lines 237-249)
\* swallow a failure to write.
SaveNewPRsAndLog(output_ok, log_ok) ==
    /\ discovery.pc = "repos"
    /\ discovery.repos_done = discovery.github_repositories
    /\ discovery' = [discovery EXCEPT
         !.pc = "exited",
         !.exit_status = Some(0),
         !.all_new_pr_urls = list_sort(@),
         !.output_file = IF output_ok THEN Some(list_sort(discovery.all_new_pr_urls))
                         ELSE None,
         !.log_file = IF log_ok
                      THEN Some(sorted_list(final_processed_urls(
                                    discovery.processed_pr_urls,
                                    discovery.all_fetched_pr_urls)))
                      ELSE None]
    /\ UNCHANGED <<transform_align_vars, fetcher, pipeline>>

DiscoverInit ==
    /\ process_pr_files_not_called
    /\ fetcher = not_run
    /\ pipeline = not_run
    /\ discovery \in DiscoveryStarts

DiscoverNext ==
    \/ DiscoverySetupFails
    \/ \E urls \in SUBSET URLs : LoadProcessedPRs(urls)
    \/ \E fetched_urls_list \in SeqsUpTo(URLs, MaxFetched) : FetchRepository(fetched_urls_list)
    \/ \E output_ok \in BOOLEAN, log_ok \in BOOLEAN : SaveNewPRsAndLog(output_ok, log_ok)

DiscoverSpec == DiscoverInit /\ [][DiscoverNext]_vars

\* ==================================================== run_pipeline.py

\* The steps of the orchestrator, in the order of its code.
PipelineSteps == <<"discover", "fetch", "transform", "bronze", "silver", "load", "log_upload">>

\* The orchestrator at line 114. local is --local. new_prs_file ("absent",
\* "empty" or "urls"), updated_log_file (it exists) and silver_dir
\* ("missing", "empty" or "files") are what is on disk. Fields without a
\* counterpart in the code: new_prs_found (the test of line 135 failed), ran
\* (the scripts and the rclone upload that were run, with their results, in
\* order), log_uploaded, exit_status.
PipelineStarts ==
    [pc : {"discover"},
     local : BOOLEAN,
     step1_success : {FALSE},
     step2_success : {FALSE},
     step3_success : {FALSE},
     step4_success : {FALSE},
     step5_success : {FALSE},
     new_prs_file : {"absent", "empty", "urls"},
     updated_log_file : BOOLEAN,
     silver_dir : {"missing", "empty", "files"},
     new_prs_found : {FALSE},
     ran : {<<>>},
     log_uploaded : {FALSE},
     exit_status : {None}]

\* Lines 63-78, run_script: the script is run and its result noted.
run_script(p, script_name, ok) ==
    [p EXCEPT !.ran = Append(@, [step |-> script_name, ok |-> ok])]

\* Lines 132, 162, 180, 188, 196 and 221: sys.exit(1).
pipeline_exit(p) == [p EXCEPT !.pc = "exited", !.exit_status = Some(1)]

goes_on_after_failure(p, ok, next_pc) == [p EXCEPT !.pc = next_pc]

\* Lines 129-132, 159-162, 177-180, 186-188, 194-196 and 219-221: after a
\* step that failed the orchestrator exits; after one that succeeded it goes
\* on to the next.
exit_unless(p, ok, next_pc) ==
    IF ok THEN [p EXCEPT !.pc = next_pc] ELSE pipeline_exit(p)

\* Line 135: no file of new PRs, or an empty one.
no_new_prs(new_prs_file) == new_prs_file \in {"absent", "empty"}

\* Lines 114-142: step 1. discover_new_prs.py exits with 0 after writing the
\* file of new PRs and the updated log (or failing to write either, which it
\* swallows) and with 1 before it writes anything. Without new PRs steps 2 to
\* 4 are marked successful and skipped.
DiscoverStep(ok, new_prs_file, updated_log_file) ==
    /\ pipeline.pc = "discover"
    /\ ~ok => new_prs_file = pipeline.new_prs_file
              /\ updated_log_file = pipeline.updated_log_file
    /\ LET p == [run_script(pipeline, "discover", ok) EXCEPT
                    !.step1_success = ok,
                    !.new_prs_found = ok /\ ~no_new_prs(new_prs_file),
                    !.new_prs_file = new_prs_file,
                    !.updated_log_file = updated_log_file]
       IN  pipeline' =
             IF ok /\ no_new_prs(new_prs_file)
             THEN [p EXCEPT !.step2_success = TRUE, !.step3_success = TRUE,
                            !.step4_success = TRUE, !.pc = "log_upload"]
             ELSE exit_unless(p, ok, "fetch")
    /\ UNCHANGED <<transform_align_vars, fetcher, discovery>>

\* Lines 143-162: step 2, github_pr_fetcher.py.
FetchStep(ok) ==
    /\ pipeline.pc = "fetch"
    /\ pipeline' = exit_unless([run_script(pipeline, "fetch", ok) EXCEPT
                                   !.step2_success = ok], ok, "transform")
    /\ UNCHANGED <<transform_align_vars, fetcher, discovery>>

\* Lines 164-180: step 3, transform_align.py.
TransformStep(ok) ==
    /\ pipeline.pc = "transform"
    /\ pipeline' = exit_unless([run_script(pipeline, "transform", ok) EXCEPT
                                   !.step3_success = ok], ok, "bronze")
    /\ UNCHANGED <<transform_align_vars, fetcher, discovery>>

\* Lines 182-188: step 3.5, build_bronze.py.
BronzeStep(ok) ==
    /\ pipeline.pc = "bronze"
    /\ pipeline' = exit_unless(run_script(pipeline, "bronze", ok), ok, "silver")
    /\ UNCHANGED <<transform_align_vars, fetcher, discovery>>

\* Lines 190-196: step 3.6, build_silver.py, which exits with 0 only after
\* writing split_map.yml, the three split files and the dataset card into
\* the silver directory (build_silver.py lines 40-79).
SilverStep(ok) ==
    /\ pipeline.pc = "silver"
    /\ pipeline' = exit_unless([run_script(pipeline, "silver", ok) EXCEPT
                                   !.silver_dir = IF ok THEN "files" ELSE @],
                               ok, "load")
    /\ UNCHANGED <<transform_align_vars, fetcher, discovery>>

\* Lines 198-221: step 4. In local mode, or with an empty silver directory,
\* nothing is run and the step counts as successful; otherwise load_data.py
\* is run.
LoadStep(ok) ==
    /\ pipeline.pc = "load"
    /\ pipeline.silver_dir # "missing"
    /\ pipeline' =
         IF pipeline.local \/ pipeline.silver_dir = "empty"
         THEN [pipeline EXCEPT !.step4_success = TRUE, !.pc = "log_upload"]
         ELSE exit_unless([run_script(pipeline, "load", ok) EXCEPT
                              !.step4_success = ok], ok, "log_upload")
    /\ UNCHANGED <<transform_align_vars, fetcher, discovery>>

\* Lines 223-251: step 5. With steps 1 to 4 successful and not in local
\* mode, the updated log, if it is there, is copied to the remote.
LogUploadStep(upload_success) ==
    /\ pipeline.pc = "log_upload"
    /\ pipeline' =
         IF pipeline.step1_success /\ pipeline.step2_success
            /\ pipeline.step3_success /\ pipeline.step4_success
         THEN IF pipeline.local
              THEN [pipeline EXCEPT !.step5_success = TRUE, !.pc = "cleanup"]
              ELSE IF ~pipeline.updated_log_file
              THEN [pipeline EXCEPT !.step5_success = FALSE, !.pc = "cleanup"]
              ELSE [run_script(pipeline, "log_upload", upload_success) EXCEPT
                       !.step5_success = upload_success,
                       !.log_uploaded = upload_success,
                       !.pc = "cleanup"]
         ELSE [pipeline EXCEPT !.pc = "cleanup"]
    /\ UNCHANGED <<transform_align_vars, fetcher, discovery>>

\* Lines 253-289: cleanup and exit status. The file of new PRs is removed,
\* alone or with the whole intermediate directory (a failure to remove is
\* swallowed, lines 271-272).
CleanupStep(removed) ==
    /\ pipeline.pc = "cleanup"
    /\ LET final_status_success ==
               /\ pipeline.step1_success /\ pipeline.step2_success
               /\ pipeline.step3_success /\ pipeline.step4_success
               /\ pipeline.step5_success
           keep_intermediate == pipeline.local \/ ~final_status_success
       IN  pipeline' = [pipeline EXCEPT
             !.pc = "exited",
             !.new_prs_file = IF removed THEN "absent" ELSE @,
             !.updated_log_file = IF ~keep_intermediate /\ removed THEN FALSE ELSE @,
             !.exit_status = Some(IF final_status_success THEN 0 ELSE 1)]
    /\ UNCHANGED <<transform_align_vars, fetcher, discovery>>

PipelineInit ==
    /\ process_pr_files_not_called
    /\ fetcher = not_run
    /\ discovery = not_run
    /\ pipeline \in PipelineStarts

PipelineNext ==
    \/ \E ok \in BOOLEAN, new_prs_file \in {"absent", "empty", "urls"},
          updated_log_file \in BOOLEAN :
           DiscoverStep(ok, new_prs_file, updated_log_file)
    \/ \E ok \in BOOLEAN : FetchStep(ok)
    \/ \E ok \in BOOLEAN : TransformStep(ok)
    \/ \E ok \in BOOLEAN : BronzeStep(ok)
    \/ \E ok \in BOOLEAN : SilverStep(ok)
    \/ \E ok \in BOOLEAN : LoadStep(ok)
    \/ \E upload_success \in BOOLEAN : LogUploadStep(upload_success)
    \/ \E removed \in BOOLEAN : CleanupStep(removed)

PipelineSpec == PipelineInit /\ [][PipelineNext]_vars

\* ------------------------------------------------- vocabulary of the claims

\* The <<hunk, line>> indices of the lines of a file's hunks, in diff order.
RECURSIVE LinesFrom(_, _)
LinesFrom(pf, h) ==
    IF h > Len(pf.hunks) THEN <<>>
    ELSE [l \in 1..Len(pf.hunks[h].lines) |-> <<h, l>>] \o LinesFrom(pf, h + 1)

LineAt(pf, hl) == pf.hunks[hl[1]].lines[hl[2]]

\* Those of kind Added or Context.
VisibleLines(pf) ==
    LET visible(hl) ==
            LineAt(pf, hl).line_type \in {LINE_TYPE_ADDED, LINE_TYPE_CONTEXT}
    IN  SelectSeq(LinesFrom(pf, 1), visible)

\* Where a comment ended: the outcome and the place in the diff.
Target(r) == <<r.reason, r.file, r.hunk, r.line>>

\* The aligned output holds exactly one record, that of line hl of file f.
AlignedTo(f, hl) ==
    /\ Len(aligned_data) = 1
    /\ skipped_comments = 0
    /\ aligned_data[1].diff_line_content = LineAt(parsed_diff[f], hl).value
    /\ aligned_data[1].diff_file_source = parsed_diff[f].source_file
    /\ aligned_data[1].diff_file_target = parsed_diff[f].target_file

\* The comment was counted as skipped and nothing was aligned.
Skipped == aligned_data = <<>> /\ skipped_comments = 1

\* A name with one leading a/ or b/ removed.
Stripped(name) == IF has_prefix(name) THEN slice_from(name, 2) ELSE name

\* The match rules as the specification words them: a path of the file, as
\* written or stripped, equals the comment's path; or a stripped path of the
\* file ends with "/" + the comment's path.
SpecExactMatch(pf, name) ==
    name \in {pf.source_file, pf.target_file,
              Stripped(pf.source_file), Stripped(pf.target_file)}

SpecSuffixMatch(pf, name) ==
    \/ endswith(Stripped(pf.source_file), <<"/">> \o name)
    \/ endswith(Stripped(pf.target_file), <<"/">> \o name)

\* --------------------------------------------------------------- claims

\* C1: for a comment whose file is matched and whose effective position p is
\* at least 1, the line resolved is the p-th Added or Context line of that
\* file, counted over the file's hunks in diff order from 0; Removed lines
\* and the lines of other files do not count. (With fewer than p such lines
\* nothing is resolved.)
C1_PositionIsPthVisibleLine ==
    last # None =>
        LET r == Val(last)
        IN  (r.find_called /\ r.file # 0 /\ Val(r.comment_pos) >= 1) =>
                LET vis == VisibleLines(parsed_diff[r.file])
                    p == Val(r.comment_pos)
                IN  IF p <= Len(vis)
                    THEN /\ r.reason = "Aligned"
                         /\ <<r.hunk, r.line>> = vis[p]
                         /\ AlignedTo(r.file, vis[p])
                    ELSE r.reason # "Aligned" /\ Skipped

\* C1 witness: position 2 resolved to a line of the second hunk of the
\* second file of the diff.
C1_Witness ==
    /\ last # None
    /\ Val(last).reason = "Aligned"
    /\ Val(last).comment_pos = Some(2)
    /\ Val(last).file = 2
    /\ Val(last).hunk = 2

\* C2: no aligned record has a Removed line as its resolved line: the
\* diff_line_type of every aligned record is added or context.
C2_NoRemovedLineAligned ==
    /\ \A i \in 1..Len(aligned_data) :
           aligned_data[i].diff_line_type \in {"added", "context"}
    /\ (last # None /\ Val(last).reason = "Aligned") =>
           ~is_removed(LineAt(parsed_diff[Val(last).file],
                              <<Val(last).hunk, Val(last).line>>))

\* C2 witness: a comment aligned to the line after a Removed line.
C2_Witness ==
    /\ last # None
    /\ Val(last).reason = "Aligned"
    /\ Val(last).line = 2
    /\ is_removed(parsed_diff[Val(last).file].hunks[Val(last).hunk].lines[1])
    /\ Len(aligned_data) = 1

\* C3: if the source or target path of any file of the diff equals the
\* comment's path exactly, the file chosen is one that matches exactly, even
\* when an earlier file matches by suffix only.
C3_ExactMatchBeforeSuffix ==
    last # None =>
        LET r == Val(last)
            exact(i) == \/ parsed_diff[i].source_file = Val(r.comment.path)
                        \/ parsed_diff[i].target_file = Val(r.comment.path)
        IN  (r.find_called /\ Val(r.comment_pos) >= 1
             /\ \E i \in 1..Len(parsed_diff) : exact(i)) =>
                r.file # 0 /\ exact(r.file)

\* The values of original_position tried against a set position: null, a
\* value line 50 turns away, the first line, and one past every line.
OriginalPositionsTried == {None, Some(0), Some(1), Some(MaxLines + 1)}

\* C4: the effective position is position when it is not null and
\* original_position otherwise. A comment with position null and
\* original_position k is not skipped as Outdated and ends where the same
\* comment with position k ends; when position is not null, no value of
\* original_position changes where the comment ends.
C4_EffectivePosition ==
    last # None =>
        LET r == Val(last)
            c == r.comment
        IN  /\ (c.position = None /\ c.original_position # None) =>
                /\ r.comment_pos = c.original_position
                /\ r.reason # "Outdated"
                /\ Target(r) = Target(process_comment(
                       parsed_diff, [c EXCEPT !.position = c.original_position]))
            /\ c.position # None =>
                /\ r.comment_pos = c.position
                /\ \A o \in OriginalPositionsTried :
                       Target(r) = Target(process_comment(
                           parsed_diff, [c EXCEPT !.original_position = o]))

\* C4 witness: a comment with a null position aligned by its original_position.
C4_Witness ==
    /\ last # None
    /\ Val(last).comment.position = None
    /\ Val(last).comment.original_position = Some(2)
    /\ Val(last).reason = "Aligned"
    /\ Len(aligned_data) = 1

\* C5: a comment whose path is absent is skipped as a general comment and is
\* never aligned, whatever its position and original_position, both null
\* included: the path test comes before the position test.
C5_AbsentPathIsGeneralComment ==
    last # None =>
        LET r == Val(last)
        IN  r.comment.path = None =>
                r.reason = "GeneralComment" /\ ~r.find_called /\ Skipped

\* C5 witness: a skipped comment with no path, no position and no
\* original_position.
C5_Witness ==
    /\ last # None
    /\ Val(last).comment.path = None
    /\ Val(last).comment.position = None
    /\ Val(last).comment.original_position = None
    /\ skipped_comments = 1

\* C6: a comment with a path whose position and original_position are both
\* null is skipped as Outdated and never aligned, and no file is looked up
\* and no hunk line walked for it.
C6_BothPositionsNullIsOutdated ==
    last # None =>
        LET r == Val(last)
        IN  (~falsy_path(r.comment.path)
             /\ r.comment.position = None
             /\ r.comment.original_position = None) =>
                /\ r.reason = "Outdated"
                /\ ~r.find_called
                /\ r.files_examined = 0
                /\ r.lines_walked = 0
                /\ Skipped

\* C6 witness: such a comment skipped although the first file of the diff
\* has its path and a line that takes a position.
C6_Witness ==
    /\ last # None
    /\ ~falsy_path(Val(last).comment.path)
    /\ Val(last).comment.position = None
    /\ Val(last).comment.original_position = None
    /\ skipped_comments = 1
    /\ parsed_diff # <<>>
    /\ exact_match(parsed_diff[1], Val(last).comment.path)
    /\ VisibleLines(parsed_diff[1]) # <<>>

\* C7: a comment with a path and an effective position of 0 or less is never
\* aligned: it ends as PositionNotFound, and no file is examined and no hunk
\* line walked for it.
C7_NonPositivePositionNotWalked ==
    last # None =>
        LET r == Val(last)
        IN  (~falsy_path(r.comment.path)
             /\ r.comment_pos # None
             /\ Val(r.comment_pos) <= 0) =>
                /\ r.reason = "PositionNotFound"
                /\ r.files_examined = 0
                /\ r.lines_walked = 0
                /\ Skipped

\* C7 witness: a comment with effective position 0 skipped although the
\* first file of the diff has its path and a line that takes a position.
C7_Witness ==
    /\ last # None
    /\ Val(last).comment_pos = Some(0)
    /\ Val(last).reason = "PositionNotFound"
    /\ parsed_diff # <<>>
    /\ exact_match(parsed_diff[1], Val(last).comment.path)
    /\ VisibleLines(parsed_diff[1]) # <<>>
    /\ skipped_comments = 1

\* C8: a comment with a path and a valid effective position, for which no
\* file of the diff matches exactly or by the suffix rule, is skipped as
\* FileNotFound and produces no aligned record.
C8_NoMatchIsFileNotFound ==
    last # None =>
        LET r == Val(last)
        IN  (/\ ~falsy_path(r.comment.path)
             /\ r.comment_pos # None
             /\ Val(r.comment_pos) >= 1
             /\ \A i \in 1..Len(parsed_diff) :
                    /\ ~SpecExactMatch(parsed_diff[i], Val(r.comment.path))
                    /\ ~SpecSuffixMatch(parsed_diff[i], Val(r.comment.path))) =>
                r.reason = "FileNotFound" /\ r.file = 0 /\ Skipped

\* C8 witness: a comment skipped as FileNotFound against a diff of two
\* files, the first of which has a line at the comment's position.
C8_Witness ==
    /\ last # None
    /\ Val(last).reason = "FileNotFound"
    /\ Len(parsed_diff) = 2
    /\ Val(last).files_examined = 2
    /\ Len(VisibleLines(parsed_diff[1])) >= Val(Val(last).comment_pos)
    /\ skipped_comments = 1

C10_RenameTolerance ==
    last # None =>
        LET r == Val(last)
            c == r.comment
            matches(j, name) == \/ exact_match(parsed_diff[j], Some(name))
                                \/ suffix_match(parsed_diff[j], Some(name))
        IN  \A i \in 1..Len(parsed_diff) :
                LET pf == parsed_diff[i]
                    source_names == {pf.source_file, Stripped(pf.source_file)}
                    target_names == {pf.target_file, Stripped(pf.target_file)}
                IN  (/\ r.find_called
                     /\ Val(r.comment_pos) >= 1
                     /\ pf.source_file # DEV_NULL
                     /\ Stripped(pf.source_file) # Stripped(pf.target_file)
                     /\ Val(c.path) \in source_names
                     /\ \A j \in 1..Len(parsed_diff) : \A name \in source_names \cup target_names :
                            j # i => ~matches(j, name)) =>
                        /\ r.file = i
                        /\ \A name \in target_names :
                               Target(r) = Target(process_comment(
                                   parsed_diff, [c EXCEPT !.path = Some(name)]))

\* C10 witness: a comment naming a renamed file by its source path, aligned
\* to a line of that file, in a diff of two files.
C10_Witness ==
    /\ last # None
    /\ Val(last).reason = "Aligned"
    /\ Val(last).comment.path = Some(<<"a", "/", "o">>)
    /\ Len(parsed_diff) = 2
    /\ Len(aligned_data) = 1
    /\ aligned_data[1].diff_file_target = <<"b", "/", "x">>

\* The file entries of the diff that git's default prefixes give for the
\* file named name: source "a/" + name, target "b/" + name.
PrefixedEntries(name) ==
    { i \in 1..Len(parsed_diff) :
        /\ parsed_diff[i].source_file = <<"a", "/">> \o name
        /\ parsed_diff[i].target_file = <<"b", "/">> \o name }

\* The last comment went through the file loop with a path without prefix.
UnprefixedLookup ==
    /\ last # None
    /\ Val(last).find_called
    /\ Val(Val(last).comment_pos) >= 1
    /\ ~has_prefix(Val(Val(last).comment.path))

PrecedingIn(hunk, l, S) ==
    Cardinality({ j \in 1..(l - 1) : hunk.lines[j].line_type \in S })

\* The record with the "side" of a comment set to side.
WithSide(comment, side) == [comment EXCEPT !.side = side]

\* C12: line_offset is target_line_no - hunk.target_start for an Added or
\* Context line and source_line_no - hunk.source_start for a Removed line,
\* which is the number of lines of the same image that come before the line
\* in its hunk; the record of a comment without side has the line_offset that
\* the same comment has with side "RIGHT".
C12_LineOffset ==
    /\ \A f \in 1..Len(parsed_diff) : \A h \in 1..Len(parsed_diff[f].hunks) :
           LET hunk == parsed_diff[f].hunks[h]
           IN  \A l \in 1..Len(hunk.lines) :
                   LET line == hunk.lines[l]
                   IN  /\ line.line_type \in {LINE_TYPE_ADDED, LINE_TYPE_CONTEXT} =>
                           /\ line_offset(hunk, line) =
                                  Val(line.target_line_no) - hunk.target_start
                           /\ line_offset(hunk, line) =
                                  PrecedingIn(hunk, l, {LINE_TYPE_ADDED, LINE_TYPE_CONTEXT})
                       /\ line.line_type = LINE_TYPE_REMOVED =>
                           /\ line_offset(hunk, line) =
                                  Val(line.source_line_no) - hunk.source_start
                           /\ line_offset(hunk, line) =
                                  PrecedingIn(hunk, l, {LINE_TYPE_REMOVED, LINE_TYPE_CONTEXT})
    /\ (last # None /\ Val(last).reason = "Aligned") =>
           LET r == Val(last)
               hunk == parsed_diff[r.file].hunks[r.hunk]
               record == aligned_data[Len(aligned_data)]
               right == WithSide(r.comment, Some("RIGHT"))
           IN  /\ record.line_offset = line_offset(hunk, hunk.lines[r.line])
               /\ record.line_offset =
                      PrecedingIn(hunk, r.line, {LINE_TYPE_ADDED, LINE_TYPE_CONTEXT})
               /\ r.comment.side = None =>
                      /\ Target(process_comment(parsed_diff, right)) = Target(r)
                      /\ aligned_record(record.comment_id, right, r.comment_pos,
                                        parsed_diff[r.file], hunk,
                                        hunk.lines[r.line]).line_offset
                            = record.line_offset

\* C12 witness: a comment without side aligned to the first line of a second
\* hunk, whose target image starts further down than its source image; the
\* record's line_offset is 0.
C12_Witness ==
    /\ last # None
    /\ Val(last).reason = "Aligned"
    /\ Val(last).comment.side = None
    /\ Val(last).hunk = 2
    /\ Val(last).line = 1
    /\ parsed_diff[Val(last).file].hunks[2].target_start
          > parsed_diff[Val(last).file].hunks[2].source_start
    /\ Len(aligned_data) = 1
    /\ aligned_data[1].line_offset = 0

\* The places <<file, hunk, line>> of the parsed diff.
DiffPlaces ==
    { place \in (1..MaxFiles) \X (1..MaxHunks) \X (1..MaxLines) :
        /\ place[1] <= Len(parsed_diff)
        /\ place[2] <= Len(parsed_diff[place[1]].hunks)
        /\ place[3] <= Len(parsed_diff[place[1]].hunks[place[2]].lines) }

\* The name unidiff's line kinds have in a record.
KindName(line_type) ==
    CASE line_type = LINE_TYPE_ADDED -> "added"
      [] line_type = LINE_TYPE_REMOVED -> "removed"
      [] line_type = LINE_TYPE_CONTEXT -> "context"
      [] OTHER -> "unknown"

\* The line fields and the file names of record are those of the line at
\* place.
RecordOfLine(record, place) ==
    LET pf == parsed_diff[place[1]]
        line == pf.hunks[place[2]].lines[place[3]]
    IN  /\ record.diff_file_source = pf.source_file
        /\ record.diff_file_target = pf.target_file
        /\ record.diff_line_content = line.value
        /\ record.diff_line_type = KindName(line.line_type)
        /\ record.diff_line_source_no = line.source_line_no
        /\ record.diff_line_target_no = line.target_line_no

\* s is t with white space taken off its two ends, and has none at its own.
StrippedFrom(s, t) ==
    /\ s = <<>> \/ (s[1] \notin Whitespace /\ s[Len(s)] \notin Whitespace)
    /\ \E a \in 0..Len(t) :
           /\ a + Len(s) <= Len(t)
           /\ SubSeq(t, a + 1, a + Len(s)) = s
           /\ \A k \in (1..a) \cup ((a + Len(s) + 1)..Len(t)) : t[k] \in Whitespace

\* C13 as stated: the line content, type and numbers of every aligned record
\* are those of one line of the parsed diff, in a hunk of the file the record
\* names by its source and target path, and the record's section header is
\* that of the hunk owning the line.
C13_RecordIsOneDiffLine ==
    \A n \in 1..Len(aligned_data) :
        /\ Cardinality({ place \in DiffPlaces :
                            RecordOfLine(aligned_data[n], place) }) = 1
        /\ \A place \in DiffPlaces :
               RecordOfLine(aligned_data[n], place) =>
                   aligned_data[n].diff_hunk_header =
                       parsed_diff[place[1]].hunks[place[2]].section_header

\* C13, amended: the line content, type and numbers of every aligned record
\* are those of one line of the parsed diff, in a hunk of the file the record
\* names by its source and target path, and the record's section header is
\* that of the hunk owning the line with the white space at its two ends
\* removed.
C13_RecordIsOneDiffLineStripped ==
    \A n \in 1..Len(aligned_data) :
        /\ Cardinality({ place \in DiffPlaces :
                            RecordOfLine(aligned_data[n], place) }) = 1
        /\ \A place \in DiffPlaces :
               RecordOfLine(aligned_data[n], place) =>
                   StrippedFrom(aligned_data[n].diff_hunk_header,
                                parsed_diff[place[1]].hunks[place[2]].section_header)
        /\ (last # None /\ Val(last).reason = "Aligned" /\ n = Len(aligned_data)) =>
               RecordOfLine(aligned_data[n],
                            <<Val(last).file, Val(last).hunk, Val(last).line>>)

\* C13 witness: a record of a line of the second hunk of the second file of
\* the diff; the hunk's section header is "f() " and the record's is "f()".
C13_Witness ==
    /\ last # None
    /\ Val(last).reason = "Aligned"
    /\ Val(last).hunk = 2
    /\ Len(aligned_data) = 1
    /\ parsed_diff[Val(last).file].hunks[2].section_header = <<"f", "(", ")", " ">>
    /\ aligned_data[1].diff_hunk_header = <<"f", "(", ")">>
    /\ aligned_data[1].diff_line_content =
          parsed_diff[Val(last).file].hunks[2].lines[Val(last).line].value

\* The entries of the diff that match name exactly, and by the suffix rule.
ExactEntries(name) ==
    { i \in 1..Len(parsed_diff) : SpecExactMatch(parsed_diff[i], name) }

SuffixEntries(name) ==
    { i \in 1..Len(parsed_diff) : SpecSuffixMatch(parsed_diff[i], name) }

Least(S) == CHOOSE i \in S : \A j \in S : i <= j

\* The file a path matches: one that matches exactly when there is one, the
\* first one that matches by the suffix rule otherwise; 0 when none matches.
MatchedEntry(name) ==
    IF ExactEntries(name) # {} THEN Least(ExactEntries(name))
    ELSE IF SuffixEntries(name) # {} THEN Least(SuffixEntries(name))
    ELSE 0

\* C18: a comment whose path matches a file of the diff that has no hunks
\* yields no aligned record, whatever its position: it is skipped as
\* FileNotFound or PositionNotFound.
C18_ZeroHunkFileNeverAligned ==
    (last # None /\ Val(last).find_called) =>
        LET r == Val(last)
            i == MatchedEntry(Val(r.comment.path))
        IN  (i # 0 /\ parsed_diff[i].hunks = <<>>) =>
                /\ r.reason \in {"FileNotFound", "PositionNotFound"}
                /\ Skipped

\* The diff text was read without an exception and opened no file entry: it
\* was empty or held blank lines only.
EmptyDiffParsed ==
    /\ pc # "parse"
    /\ parsed_diff = <<>>
    /\ raised \notin {"UnidiffParseError", "FileNotFoundError"}

\* C19 as stated: an empty or whitespace-only diff parses to a diff of zero
\* files without an error, and every comment aligned against it is skipped
\* as FileNotFound, none being aligned.
C19_EmptyDiffAllFileNotFound ==
    EmptyDiffParsed =>
        /\ aligned_data = <<>>
        /\ last # None => (Val(last).reason = "FileNotFound" /\ Skipped)

\* C19, amended: an empty or whitespace-only diff parses to a diff of zero
\* files without an error and no comment is aligned against it. A comment
\* with a path and an effective position of at least 1 is skipped as
\* FileNotFound, and only such a comment is: one without path is skipped as
\* GeneralComment, one with a path and no position as Outdated, one with a
\* position below 1 as PositionNotFound.
C19_EmptyDiffNothingAligned ==
    EmptyDiffParsed =>
        /\ aligned_data = <<>>
        /\ pc = "done" => output_file \in {"removed", "absent"}
        /\ last # None =>
               LET r == Val(last)
                   valid == /\ ~falsy_path(r.comment.path)
                            /\ r.comment_pos # None
                            /\ Val(r.comment_pos) >= 1
               IN  /\ Skipped
                   /\ r.file = 0
                   /\ r.reason = "FileNotFound" <=> valid
                   /\ falsy_path(r.comment.path) => r.reason = "GeneralComment"
                   /\ (~falsy_path(r.comment.path) /\ r.comment_pos = None) =>
                          r.reason = "Outdated"
                   /\ (~falsy_path(r.comment.path) /\ r.comment_pos # None
                       /\ Val(r.comment_pos) < 1) =>
                          r.reason = "PositionNotFound"

\* C19 witness: a comment with path "x" and position 1 skipped as FileNotFound
\* against the diff of zero files.
C19_Witness ==
    /\ EmptyDiffParsed
    /\ pc = "align"
    /\ last # None
    /\ Val(last).comment.path = Some(<<"x">>)
    /\ Val(last).comment_pos = Some(1)
    /\ Val(last).reason = "FileNotFound"
    /\ Val(last).files_examined = 0
    /\ Skipped

Returned == pc \in {"done", "failed"}

\* The records of aligned_data made for the comment of line comment_id.
RecordsOf(comment_id) ==
    { n \in 1..Len(aligned_data) : aligned_data[n].comment_id = comment_id }

\* C14: every line of the comments file read so far is accounted for once:
\* the number of aligned records and the number of skipped lines add up to
\* the number of lines read, a comment that was aligned has one record and a
\* comment that was skipped has none.
C14_EveryCommentAccountedOnce ==
    /\ Len(aligned_data) + skipped_comments = lines_read
    /\ \A i \in 1..Len(history) :
           Cardinality(RecordsOf(history[i].comment_id)) =
               IF history[i].reason = "Aligned" THEN 1 ELSE 0

\* The ids of the comments that were aligned, in the order of the comments
\* file.
AlignedIds ==
    LET aligned(entry) == entry.reason = "Aligned"
        entries == SelectSeq(history, aligned)
    IN  [n \in 1..Len(entries) |-> entries[n].comment_id]

\* C15: the aligned records are in the order of the comments file: of two
\* comments that were aligned, the record of the one read first comes first.
C15_AlignedOrderIsInputOrder ==
    /\ \A m, n \in 1..Len(aligned_data) :
           m < n => aligned_data[m].comment_id < aligned_data[n].comment_id
    /\ pc = "align" =>
           [n \in 1..Len(aligned_data) |-> aligned_data[n].comment_id] = AlignedIds

\* C15 witness: two comments aligned to two different lines, the output
\* written with the record of the first comment first.
C15_Witness ==
    /\ pc = "done"
    /\ output_file = "written"
    /\ Len(aligned_data) = 2
    /\ aligned_data[1].comment_id = 1
    /\ aligned_data[2].comment_id = 2
    /\ aligned_data[1].diff_line_content # aligned_data[2].diff_line_content

\* C16: what becomes of a comment does not depend on the other comments of
\* the file: it ends where it ends when it is the only comment, and when it
\* is aligned its record is the one made for it alone and is in the output
\* of the run.
C16_OutcomeIndependentOfOthers ==
    \A i \in 1..Len(history) :
        LET entry == history[i]
            alone == process_comment(parsed_diff, entry.comment)
        IN  /\ Target(entry) = Target(alone)
            /\ entry.reason = "Aligned" =>
                   /\ \E n \in 1..Len(aligned_data) :
                          aligned_data[n] =
                              aligned_record(entry.comment_id, entry.comment,
                                  alone.comment_pos, parsed_diff[alone.file],
                                  parsed_diff[alone.file].hunks[alone.hunk],
                                  parsed_diff[alone.file].hunks[alone.hunk].lines[alone.line])
                   /\ Returned => output_file = "written"

\* C17: no comment record makes the run fail: whatever the lines of the
\* comments file hold, the loop goes on to the next line, the run returns
\* True and the records aligned so far are in its output.
C17_NeverFailsOutright ==
    /\ raised \notin CommentExceptions
    /\ pc # "failed"
    /\ (Returned /\ aligned_data # <<>>) => output_file = "written"

\* The walk of a file for position p, from its first line.
Lookup(pf, p) == walk(pf, 1, 1, 0, p, 0)

\* Line <<h1, l1>> comes before line <<h2, l2>> in walk order.
Earlier(h1, l1, h2, l2) == h1 < h2 \/ (h1 = h2 /\ l1 < l2)

\* The files a state puts in question: while the diff is parsed, every file
\* parsed so far; once the loop has looked a comment up, the file it was
\* looked up in. (Every file of a diff is in question when it is parsed, and
\* the loop does not change the diff.)
FilesInQuestion ==
    IF pc = "parse" THEN 1..Len(parsed_diff)
    ELSE IF last # None /\ Val(last).file # 0 THEN {Val(last).file}
    ELSE {}

\* C21: within each file, with N the number of Added and Context lines of
\* its hunks, every position in 1..N resolves, to an Added or Context line;
\* a larger position resolves to a later line (so no two positions resolve
\* to the same line), every such line is the target of a position, and
\* position N + 1 does not resolve.
C21_PositionsAreABijection ==
    \A f \in FilesInQuestion :
        LET pf == parsed_diff[f]
            visible == VisibleLines(pf)
            N == Len(visible)
            found == [p \in 1..(N + 1) |-> Lookup(pf, p)]
        IN  /\ \A p \in 1..N :
                   /\ found[p].hunk # 0
                   /\ <<found[p].hunk, found[p].line>> = visible[p]
            /\ \A p, q \in 1..N :
                   p < q => Earlier(found[p].hunk, found[p].line,
                                    found[q].hunk, found[q].line)
            /\ \A n \in 1..Len(visible) :
                   \E p \in 1..N : <<found[p].hunk, found[p].line>> = visible[n]
            /\ found[N + 1].hunk = 0

\* C21 witness: a file with two hunks of one Added or Context line each, and
\* a comment aligned to the line of the second hunk by position 2.
C21_Witness ==
    /\ last # None
    /\ Val(last).reason = "Aligned"
    /\ Val(last).comment_pos = Some(2)
    /\ Val(last).hunk = 2
    /\ Len(VisibleLines(parsed_diff[Val(last).file])) = 2
    /\ Len(aligned_data) = 1

\* The hunks of the parsed diff, as <<file, hunk>> indices.
DiffHunks ==
    { fh \in (1..MaxFiles) \X (1..MaxHunks) :
        fh[1] <= Len(parsed_diff) /\ fh[2] <= Len(parsed_diff[fh[1]].hunks) }

SourceKinds == {LINE_TYPE_REMOVED, LINE_TYPE_CONTEXT}

TargetKinds == {LINE_TYPE_ADDED, LINE_TYPE_CONTEXT}

\* C22: in every parsed hunk the k-th Added-or-Context line has
\* target_line_no = target_start + k - 1 and the k-th Removed-or-Context
\* line has source_line_no = source_start + k - 1; an Added line has no
\* source number and a Removed line no target number; a record carries the
\* two numbers of its line.
C22_TwoLineCounters ==
    /\ \A fh \in DiffHunks :
           LET hunk == parsed_diff[fh[1]].hunks[fh[2]]
           IN  \A l \in 1..Len(hunk.lines) :
                   LET line == hunk.lines[l]
                   IN  /\ line.line_type \in TargetKinds =>
                              line.target_line_no =
                                  Some(hunk.target_start + PrecedingIn(hunk, l, TargetKinds))
                       /\ line.line_type \in SourceKinds =>
                              line.source_line_no =
                                  Some(hunk.source_start + PrecedingIn(hunk, l, SourceKinds))
                       /\ line.line_type = LINE_TYPE_ADDED => line.source_line_no = None
                       /\ line.line_type = LINE_TYPE_REMOVED => line.target_line_no = None
    /\ (last # None /\ Val(last).reason = "Aligned") =>
           LET r == Val(last)
               hunk == parsed_diff[r.file].hunks[r.hunk]
               record == aligned_data[Len(aligned_data)]
           IN  /\ record.diff_line_target_no =
                      Some(hunk.target_start + PrecedingIn(hunk, r.line, TargetKinds))
               /\ record.diff_line_source_no =
                      IF hunk.lines[r.line].line_type = LINE_TYPE_ADDED THEN None
                      ELSE Some(hunk.source_start + PrecedingIn(hunk, r.line, SourceKinds))

\* C22 witness: a comment aligned to an Added line that follows a Removed
\* line in its hunk: the record has the hunk's first target number and no
\* source number.
C22_Witness ==
    /\ last # None
    /\ Val(last).reason = "Aligned"
    /\ Val(last).line = 2
    /\ Len(aligned_data) = 1
    /\ LET hunk == parsed_diff[Val(last).file].hunks[Val(last).hunk]
       IN  /\ hunk.lines[1].line_type = LINE_TYPE_REMOVED
           /\ hunk.lines[2].line_type = LINE_TYPE_ADDED
           /\ aligned_data[1].diff_line_target_no = Some(hunk.target_start)
           /\ aligned_data[1].diff_line_source_no = None

\* The no-newline markers of the parsed diff, as places.
MarkerPlaces ==
    { place \in DiffPlaces :
        LineAt(parsed_diff[place[1]], <<place[2], place[3]>>).line_type
            = LINE_TYPE_NO_NEWLINE }

\* Those in the files in question.
MarkerPlacesInQuestion == { place \in MarkerPlaces : place[1] \in FilesInQuestion }

\* C23: a no-newline marker in a hunk is not Added, Removed or Context, has
\* no line number and advances neither counter (the lines after it are
\* numbered as if it were not there); it takes no comment position and no
\* position resolves to it.
C23_NoNewlineMarkerIgnored ==
    /\ \A place \in MarkerPlacesInQuestion :
           LET pf == parsed_diff[place[1]]
               hunk == pf.hunks[place[2]]
               marker == hunk.lines[place[3]]
           IN  /\ ~is_added(marker) /\ ~is_removed(marker) /\ ~is_context(marker)
               /\ get_line_type(marker) = "unknown"
               /\ marker.source_line_no = None /\ marker.target_line_no = None
               /\ ~counts_toward_position(marker)
               /\ \A l \in (place[3] + 1)..Len(hunk.lines) :
                      LET line == hunk.lines[l]
                      IN  /\ line.line_type \in TargetKinds =>
                                 Val(line.target_line_no) - hunk.target_start
                                     = PrecedingIn(hunk, l, TargetKinds)
                          /\ line.line_type \in SourceKinds =>
                                 Val(line.source_line_no) - hunk.source_start
                                     = PrecedingIn(hunk, l, SourceKinds)
               /\ \A p \in 1..(MaxLines + 1) :
                      LET found == Lookup(pf, p)
                      IN  <<found.hunk, found.line>> # <<place[2], place[3]>>
    /\ (last # None /\ Val(last).reason = "Aligned") =>
           LET r == Val(last)
               pf == parsed_diff[r.file]
               visible == VisibleLines(pf)
               before == { n \in 1..Len(visible) :
                             Earlier(visible[n][1], visible[n][2], r.hunk, r.line) }
           IN  /\ <<r.file, r.hunk, r.line>> \notin MarkerPlaces
               /\ aligned_data[Len(aligned_data)].diff_line_type # "unknown"
               /\ Val(r.comment_pos) = 1 + Cardinality(before)

\* C23 witness: a file whose only hunk is an Added line and a marker; the
\* comment's position 2 walks over both lines and is not found.
C23_Witness ==
    /\ last # None
    /\ Val(last).file # 0
    /\ Val(last).comment_pos = Some(2)
    /\ <<Val(last).file, 1, 2>> \in MarkerPlaces
    /\ Val(last).lines_walked = 2
    /\ Val(last).reason = "PositionNotFound"
    /\ Skipped

OutputExists == output_file \in {"written", "stale"}

AddedToCheckpoint == fetcher.processed_prs_by_repo_checkpoint \ fetcher.loaded

\* A pull request failed in this run: at its fetch, at its save, or at the
\* upload of its repository's batch.
FailedInRun(p) ==
    \/ p \in fetcher.fetch_failed
    \/ p \in fetcher.save_failed
    \/ p.repo_key \in fetcher.upload_failed

\* C25: a pull request is added to the checkpoint only after its diff and
\* comments were fetched and saved in this run and the upload of its
\* repository's batch succeeded or was skipped by --skip-remote-upload; a
\* pull request whose fetch or save failed, or whose batch failed to upload,
\* is never added to the checkpoint in that run.
C25_CheckpointedOnlyWhenNothingFailed ==
    \A p \in PRs :
        /\ p \in AddedToCheckpoint =>
              /\ p \in fetcher.fetched_and_saved
              /\ fetcher.skip_remote_upload \/ p.repo_key \in fetcher.uploaded
        /\ FailedInRun(p) => p \notin AddedToCheckpoint

\* C26: the checkpoint file is deleted at the end of a run only if no pull
\* request failed in the run and every valid pull request of the input list
\* is in the processed set; on any failure, or when an input pull request is
\* still unprocessed, the file is kept and the exit status is 1.
C26_CheckpointDeletedOnlyWhenComplete ==
    fetcher.pc = "exited" =>
        LET required == all_input_prs_parsed_details(fetcher.all_input_pr_urls)
            failed == \E p \in PRs : FailedInRun(p)
            unprocessed == \E i \in 1..Len(required) :
                               required[i] \notin fetcher.processed_prs_by_repo_checkpoint
        IN  /\ fetcher.checkpoint_file = "deleted" => ~failed /\ ~unprocessed
            /\ (failed \/ unprocessed) =>
                  /\ fetcher.checkpoint_file # "deleted"
                  /\ fetcher.exit_status = Some(1)

C26_Witness ==
    /\ fetcher.pc = "exited"
    /\ fetcher.checkpoint_file = "deleted"
    /\ fetcher.exit_status = Some(0)
    /\ Len(fetcher.all_input_pr_urls) = 2
    /\ fetcher.loaded # {}
    /\ AddedToCheckpoint # {}
    /\ fetcher.uploaded # {}

\* The seconds min(30 * 2^(k-1), 300) for k = 1..5.
SpecBackoff(k) == <<30, 60, 120, 240, 300>>[k]

\* C27: for one pull request, the retries after a diff download rate limit
\* without a usable Retry-After header number at most 5, whatever waits on
\* RateLimitExceededException come between them; the wait before the k-th
\* retry is min(30 * 2^(k-1), 300) seconds; the next such response fails the
\* pull request, which is not added to the batch.
C27_DiffRetriesBounded ==
    /\ [](fetcher.pc = "fetch" =>
             /\ fetcher.current_diff_fetch_retry \in 0..5
             /\ fetcher.current_diff_fetch_retry >= 1 =>
                    fetcher.wait_time = SpecBackoff(fetcher.current_diff_fetch_retry))
    /\ [][DiffRateLimitedNoRetryAfter =>
             IF fetcher.current_diff_fetch_retry < 5
             THEN /\ fetcher'.pc = "fetch"
                  /\ fetcher'.current_diff_fetch_retry = fetcher.current_diff_fetch_retry + 1
                  /\ fetcher'.wait_time = SpecBackoff(fetcher'.current_diff_fetch_retry)
                  /\ fetcher'.rate_limit_waits = fetcher.rate_limit_waits
             ELSE /\ fetcher'.pc = "repo"
                  /\ current_pr \in fetcher'.fetch_failed
                  /\ fetcher'.overall_failure_count = fetcher.overall_failure_count + 1
                  /\ fetcher'.repo_batch_successfully_fetched_and_saved =
                         fetcher.repo_batch_successfully_fetched_and_saved
                  /\ fetcher'.fetched_and_saved = fetcher.fetched_and_saved]_vars
    /\ [][RateLimitExceeded =>
             fetcher'.current_diff_fetch_retry = fetcher.current_diff_fetch_retry]_vars

C27_Witness ==
    /\ fetcher.pc = "repo"
    /\ fetcher.pr_index = 1
    /\ fetcher.current_diff_fetch_retry = 5
    /\ fetcher.wait_time = 300
    /\ fetcher.rate_limit_waits = 1
    /\ fetcher.fetch_failed # {}
    /\ fetcher.repo_batch_successfully_fetched_and_saved = <<>>

\* ----------------------------------------------- claims on the orchestrator

\* The place of a step in the fixed order.
StepIndex(step) == CHOOSE i \in 1..Len(PipelineSteps) : PipelineSteps[i] = step

\* A step was run, and with which result.
Ran(step) == \E i \in 1..Len(pipeline.ran) : pipeline.ran[i].step = step
RanWell(step) == \E i \in 1..Len(pipeline.ran) :
                     pipeline.ran[i].step = step /\ pipeline.ran[i].ok

\* Discovery succeeded and left no new PRs: steps 2 to 4 are skipped.
SkippedForNoNewPRs(step) ==
    /\ step \in {"fetch", "transform", "bronze", "silver", "load"}
    /\ RanWell("discover")
    /\ ~pipeline.new_prs_found
    /\ ~Ran(step)

\* C28: the steps run in the order discover, fetch, transform, bronze,
\* silver, load, log upload, each only after all earlier steps succeeded
\* (or were skipped for want of new PRs); the processed-PR log is uploaded
\* only in a run where discover succeeded and fetch, transform and load each
\* succeeded or were skipped because no new PRs were found, so that a failure
\* of any step means the log is not uploaded in that run.
C28_StepsInOrderLogUploadedLast ==
    /\ \A i, j \in 1..Len(pipeline.ran) :
          i < j => /\ StepIndex(pipeline.ran[i].step) < StepIndex(pipeline.ran[j].step)
                   /\ pipeline.ran[i].ok
    /\ \A j \in 1..Len(pipeline.ran) :
          \A k \in 1..(StepIndex(pipeline.ran[j].step) - 1) :
              RanWell(PipelineSteps[k]) \/ SkippedForNoNewPRs(PipelineSteps[k])
    /\ pipeline.log_uploaded =>
          /\ RanWell("discover")
          /\ \A step \in {"fetch", "transform", "load"} :
                 RanWell(step) \/ SkippedForNoNewPRs(step)
    /\ (\E i \in 1..Len(pipeline.ran) : ~pipeline.ran[i].ok) => ~pipeline.log_uploaded

C28_Witness ==
    /\ pipeline.pc = "exited"
    /\ pipeline.log_uploaded
    /\ Len(pipeline.ran) = 7
    /\ pipeline.exit_status = Some(0)

\* --------------------------------------------------- claims on discovery

\* No URL is twice in a list.
NoRepeat(urls) == \A i, j \in 1..Len(urls) : i # j => urls[i] # urls[j]

\* C30: the list of new PR URLs written for processing holds no URL of the
\* loaded processed log and no URL twice, also when a URL is returned several
\* times for one repository or by several repositories; every fetched URL is
\* in the updated processed log.
C30_NewListFreshAndDistinct ==
    /\ NoRepeat(discovery.all_new_pr_urls)
    /\ Elements(discovery.all_new_pr_urls) \cap discovery.loaded = {}
    /\ discovery.output_file # None =>
          /\ NoRepeat(Val(discovery.output_file))
          /\ Elements(Val(discovery.output_file)) \cap discovery.loaded = {}
    /\ discovery.log_file # None =>
          discovery.all_fetched_pr_urls \subseteq Elements(Val(discovery.log_file))

C30_Witness ==
    /\ discovery.pc = "exited"
    /\ discovery.output_file # None
    /\ Len(Val(discovery.output_file)) = 2
    /\ discovery.log_file # None
    /\ discovery.returned_again \cap Elements(Val(discovery.output_file)) # {}
    /\ discovery.all_fetched_pr_urls \cap discovery.loaded # {}

====
